---------------------------- MODULE Spec2Model ----------------------------
(***************************************************************************)
(* The Acquire rules engine (src/src/logic): the board, the pricing table, *)
(* the phase states and the turn engine AcquireGame, as a state machine    *)
(* whose actions are the calls of handle_player_response.                  *)
(***************************************************************************)
EXTENDS Integers, Sequences, FiniteSets, TLC

(***************************************************************************)
(* Program constants.                                                      *)
(***************************************************************************)
BOARD_ROWS == 9
BOARD_COLS == 12
SAFE_CHAIN_SIZE == 11
\* acquire_constants.rs is not among the sources; the values are the spec's
\* ("initialized to a fixed cap (25)", "up to 3 total").
MAX_STOCK_PER_HOTEL == 25
STOCK_TO_BUY_PER_TURN == 3
STARTING_CASH == 6000
HAND_SIZE == 6
\* usize::MAX of GameStartState::new. 2^64 - 1 exceeds TLC's integers; the
\* value is only ever compared with board coordinates.
USIZE_MAX == 2147483647

(***************************************************************************)
(* Bounds of the model.                                                    *)
(***************************************************************************)
\* number_of_players handed to AcquireGame::new
NumPlayers == 3
\* Tile responses name cells of the top-left InRows x InCols corner of the
\* board (and one cell off the board)
InRows == 3
InCols == 5
\* hotel-valued responses name the first MaxHotelInputs hotels of Hotel::iter
MaxHotelInputs == 3
\* the run is followed until MaxTurns turns have ended
MaxTurns == 4
\* and while fewer than MaxBuys purchases have been accepted
MaxBuys == 1
\* and while no player's cash exceeds MaxCash
MaxCash == 10000
\* seeds of the random source that are explored: 0..MaxSeed
MaxSeed == 0
\* seeds SpecStart explores: MaxSeed + 1..MaxStartSeed
MaxStartSeed == 40
\* rounds played before the position of SpecMarket
MarketRounds == 7
\* turns SpecMarket follows its position for
MarketTurns == 2
\* the rounds that led to the position of SpecSafe
SafeRounds == 12
\* the turns followed from the position of SpecSafe
SafeTurns == 1
\* and while no player's cash exceeds SafeMaxCash
SafeMaxCash == 20000
\* SpecBoard places tiles while fewer than BoardTiles of the cells it names
\* are occupied
BoardTiles == 3
\* the numbers of players a game is created with: 1..MaxNewPlayers
MaxNewPlayers == 6

\* the tiles left in the pool in the positions of the end of a game
LastPool == 2

\* the rounds played before the positions of SpecMerger
MergerRounds == 14

(***************************************************************************)
(* hotel_data.rs                                                           *)
(***************************************************************************)
HotelIter ==
    << "Tower", "Luxor", "American", "Worldwide", "Festival", "Imperial",
       "Continental" >>

Hotels == { HotelIter[i] : i \in 1..Len(HotelIter) }

HotelCount == Cardinality(Hotels)

get_hotel_row_advantage(hotel) ==
    CASE hotel \in {"Tower", "Luxor"} -> 0
      [] hotel \in {"American", "Worldwide", "Festival"} -> 1
      [] hotel \in {"Imperial", "Continental"} -> 2

\* get_row_from_chain_length with the row of 6 to 10 cells up to 20 cells
get_row_from_chain_length_late_step(hotel, chain_length) ==
    LET base_row ==
            CASE chain_length \in 0..2 -> 0
              [] chain_length = 3 -> 1
              [] chain_length = 4 -> 2
              [] chain_length = 5 -> 3
              [] chain_length \in 6..20 -> 4
              [] chain_length \in 21..30 -> 6
              [] chain_length \in 31..40 -> 7
              [] OTHER -> 8
    IN  base_row + get_hotel_row_advantage(hotel)

get_row_from_chain_length(hotel, chain_length) ==
    LET base_row ==
            CASE chain_length \in 0..2 -> 0
              [] chain_length = 3 -> 1
              [] chain_length = 4 -> 2
              [] chain_length = 5 -> 3
              [] chain_length \in 6..10 -> 4
              [] chain_length \in 11..20 -> 5
              [] chain_length \in 21..30 -> 6
              [] chain_length \in 31..40 -> 7
              [] OTHER -> 8
    IN  base_row + get_hotel_row_advantage(hotel)

get_stock_value(hotel, chain_length) ==
    (get_row_from_chain_length(hotel, chain_length) + 2) * 100

get_majority_holder_bonus(hotel, chain_length) ==
    get_stock_value(hotel, chain_length) * 10

get_minority_holder_bonus(hotel, chain_length) ==
    get_stock_value(hotel, chain_length) * 5

(***************************************************************************)
(* tile.rs: a tile is <<row, col>>; the order is by column, then by row.   *)
(***************************************************************************)
\* Ord for Tile comparing the row first
TileLess_row_first(a, b) == a[1] < b[1] \/ (a[1] = b[1] /\ a[2] < b[2])

TileLess(a, b) == a[2] < b[2] \/ (a[2] = b[2] /\ a[1] < b[1])

(***************************************************************************)
(* game_board.rs                                                           *)
(***************************************************************************)
Cells == (0..(BOARD_ROWS - 1)) \X (0..(BOARD_COLS - 1))

Empty == [tag |-> "Empty"]
Independent == [tag |-> "Independent"]
NewChain == [kind |-> "NewChain"]
Merge(n) == [kind |-> "Merge", n |-> n]
Conflict(conflict_type) == [tag |-> "Conflict", conflict_type |-> conflict_type]
HotelCell(hotel) == [tag |-> "Hotel", hotel |-> hotel]

NewBoard == [t \in Cells |-> Empty]

get_cell_state(b, row, col) ==
    IF row \in 0..(BOARD_ROWS - 1) /\ col \in 0..(BOARD_COLS - 1)
    THEN b[<<row, col>>]
    ELSE Empty

get_active_hotels(b) ==
    { hotel \in Hotels : \E t \in Cells : b[t] = HotelCell(hotel) }

get_inactive_hotels(b) == Hotels \ get_active_hotels(b)

get_hotel_chain_size(b, hotel) ==
    Cardinality({ t \in Cells : b[t] = HotelCell(hotel) })

\* the four neighbours, in the order the code visits them; col - 1 and
\* row - 1 of a cell on the edge wrap to usize::MAX in the code, which
\* get_cell_state treats as off the board, as it does -1 here
Neighbours(row, col) ==
    << <<row, col + 1>>, <<row, col - 1>>, <<row + 1, col>>, <<row - 1, col>> >>

get_adjacent_hotels(b, row, col) ==
    { hotel \in Hotels :
        \E i \in 1..4 :
            get_cell_state(b, Neighbours(row, col)[i][1],
                           Neighbours(row, col)[i][2]) = HotelCell(hotel) }

is_cell_next_to_independent(b, row, col) ==
    \E i \in 1..4 :
        get_cell_state(b, Neighbours(row, col)[i][1],
                       Neighbours(row, col)[i][2]) = Independent

would_cell_start_new_chain(b, row, col) ==
    /\ Cardinality(get_adjacent_hotels(b, row, col)) = 0
    /\ is_cell_next_to_independent(b, row, col)

would_cell_merge_chains(b, row, col) ==
    Cardinality(get_adjacent_hotels(b, row, col)) > 1

\* Option<(row, col, conflict_type)>: the first Conflict cell in row-major
\* order
get_conflict_on_board(b) ==
    LET found == { t \in Cells : b[t].tag = "Conflict" }
    IN  IF found = {}
        THEN [some |-> FALSE]
        ELSE LET first == CHOOSE t \in found :
                              \A u \in found :
                                  \/ t[1] < u[1]
                                  \/ (t[1] = u[1] /\ t[2] <= u[2])
             IN  [some |-> TRUE, row |-> first[1], col |-> first[2],
                  conflict_type |-> b[first].conflict_type]

\* is_cell_playable refusing a merger next to a single safe chain
is_cell_playable_next_to_a_safe_chain(b, row, col) ==
    IF row >= BOARD_ROWS \/ col >= BOARD_COLS
    THEN "CellIsOffBoard"
    ELSE IF get_conflict_on_board(b).some
    THEN "ConflictOnBoard"
    ELSE IF b[<<row, col>>] # Empty
    THEN "CellIsNotEmpty"
    ELSE IF /\ Cardinality(get_active_hotels(b)) >= HotelCount
            /\ would_cell_start_new_chain(b, row, col)
    THEN "HotelsAreAllActive"
    ELSE IF /\ Cardinality(get_adjacent_hotels(b, row, col)) > 1
            /\ Cardinality({ hotel \in get_adjacent_hotels(b, row, col) :
                   get_hotel_chain_size(b, hotel) >= SAFE_CHAIN_SIZE }) > 0
    THEN "AdjacentHotelsAreSafe"
    ELSE "Playable"

\* is_cell_playable without its test for a conflict on the board
is_cell_playable_ignoring_conflict(b, row, col) ==
    IF row >= BOARD_ROWS \/ col >= BOARD_COLS
    THEN "CellIsOffBoard"
    ELSE IF b[<<row, col>>] # Empty
    THEN "CellIsNotEmpty"
    ELSE IF /\ Cardinality(get_active_hotels(b)) >= HotelCount
            /\ would_cell_start_new_chain(b, row, col)
    THEN "HotelsAreAllActive"
    ELSE IF /\ Cardinality(get_adjacent_hotels(b, row, col)) > 1
            /\ Cardinality({ hotel \in get_adjacent_hotels(b, row, col) :
                   get_hotel_chain_size(b, hotel) >= SAFE_CHAIN_SIZE }) > 1
    THEN "AdjacentHotelsAreSafe"
    ELSE "Playable"

\* Result<bool, CellNotPlayableReason>: "Playable" for Ok(true), else the
\* reason
is_cell_playable(b, row, col) ==
    IF row >= BOARD_ROWS \/ col >= BOARD_COLS
    THEN "CellIsOffBoard"
    ELSE IF get_conflict_on_board(b).some
    THEN "ConflictOnBoard"
    ELSE IF b[<<row, col>>] # Empty
    THEN "CellIsNotEmpty"
    ELSE IF /\ Cardinality(get_active_hotels(b)) >= HotelCount
            /\ would_cell_start_new_chain(b, row, col)
    THEN "HotelsAreAllActive"
    ELSE IF /\ Cardinality(get_adjacent_hotels(b, row, col)) > 1
            /\ Cardinality({ hotel \in get_adjacent_hotels(b, row, col) :
                   get_hotel_chain_size(b, hotel) >= SAFE_CHAIN_SIZE }) > 1
    THEN "AdjacentHotelsAreSafe"
    ELSE "Playable"

\* the recursive fill of flood_hotel: down, up, right, left
RECURSIVE fill(_, _, _, _)
fill(b, row, col, hotel) ==
    IF get_cell_state(b, row, col) = Empty
    THEN b
    ELSE IF get_cell_state(b, row, col) = HotelCell(hotel)
    THEN b
    ELSE LET b0 == [b EXCEPT ![<<row, col>>] = HotelCell(hotel)]
             b1 == fill(b0, row + 1, col, hotel)
             b2 == fill(b1, row - 1, col, hotel)
             b3 == fill(b2, row, col + 1, hotel)
         IN  fill(b3, row, col - 1, hotel)

\* flood_hotel labelling the cell it starts from and no other
flood_hotel_one_cell(b, row, col, hotel) ==
    [b EXCEPT ![<<row, col>>] = HotelCell(hotel)]

flood_hotel(b, row, col, hotel) == fill(b, row, col, hotel)

\* place_tile with Merge counting every adjacent chain
place_tile_counting_all_chains(b, row, col) ==
    IF is_cell_playable(b, row, col) # "Playable"
    THEN [result |-> [kind |-> "CellNotPlayable",
                      reason |-> is_cell_playable(b, row, col)],
          board |-> b]
    ELSE IF would_cell_start_new_chain(b, row, col)
    THEN [result |-> [kind |-> "ConflictCreated", conflict_type |-> NewChain],
          board |-> [b EXCEPT ![<<row, col>>] = Conflict(NewChain)]]
    ELSE LET adjacent_hotels == get_adjacent_hotels(b, row, col)
         IN  IF Cardinality(adjacent_hotels) > 1
             THEN LET number_of_mergers == Cardinality(adjacent_hotels)
                  IN  [result |-> [kind |-> "ConflictCreated",
                                   conflict_type |-> Merge(number_of_mergers)],
                       board |-> [b EXCEPT ![<<row, col>>] =
                                      Conflict(Merge(number_of_mergers))]]
             ELSE LET b0 == [b EXCEPT ![<<row, col>>] = Independent]
                  IN  IF Cardinality(adjacent_hotels) = 1
                      THEN [result |-> [kind |-> "Success"],
                            board |-> flood_hotel(b0, row, col,
                                         CHOOSE h \in adjacent_hotels : TRUE)]
                      ELSE [result |-> [kind |-> "Success"], board |-> b0]

\* PlaceTileResult and the board place_tile leaves
place_tile(b, row, col) ==
    IF is_cell_playable(b, row, col) # "Playable"
    THEN [result |-> [kind |-> "CellNotPlayable",
                      reason |-> is_cell_playable(b, row, col)],
          board |-> b]
    ELSE IF would_cell_start_new_chain(b, row, col)
    THEN [result |-> [kind |-> "ConflictCreated", conflict_type |-> NewChain],
          board |-> [b EXCEPT ![<<row, col>>] = Conflict(NewChain)]]
    ELSE LET adjacent_hotels == get_adjacent_hotels(b, row, col)
         IN  IF Cardinality(adjacent_hotels) > 1
             THEN LET number_of_mergers == Cardinality(adjacent_hotels) - 1
                  IN  [result |-> [kind |-> "ConflictCreated",
                                   conflict_type |-> Merge(number_of_mergers)],
                       board |-> [b EXCEPT ![<<row, col>>] =
                                      Conflict(Merge(number_of_mergers))]]
             ELSE LET b0 == [b EXCEPT ![<<row, col>>] = Independent]
                  IN  IF Cardinality(adjacent_hotels) = 1
                      THEN [result |-> [kind |-> "Success"],
                            board |-> flood_hotel(b0, row, col,
                                         CHOOSE h \in adjacent_hotels : TRUE)]
                      ELSE [result |-> [kind |-> "Success"], board |-> b0]

Max(S) == CHOOSE x \in S : \A y \in S : y <= x

\* acceptable_conflict_resolutions without the test of the chain's size
acceptable_conflict_resolutions_all_adjacent(b) ==
    LET conflict == get_conflict_on_board(b)
    IN  IF ~conflict.some
        THEN {}
        ELSE IF conflict.conflict_type = NewChain
        THEN get_inactive_hotels(b)
        ELSE get_adjacent_hotels(b, conflict.row, conflict.col)

acceptable_conflict_resolutions(b) ==
    LET conflict == get_conflict_on_board(b)
    IN  IF ~conflict.some
        THEN {}
        ELSE IF conflict.conflict_type = NewChain
        THEN get_inactive_hotels(b)
        ELSE LET adjacent_hotels ==
                     get_adjacent_hotels(b, conflict.row, conflict.col)
                 \* .max().unwrap(): a Merge conflict is only ever created
                 \* next to two or more chains, and they stay next to it
                 max_chain_size ==
                     Max({ get_hotel_chain_size(b, hotel) :
                             hotel \in adjacent_hotels })
             IN  { hotel \in adjacent_hotels :
                     get_hotel_chain_size(b, hotel) = max_chain_size }

\* resolve_conflict without the test of the hotel
resolve_conflict_unchecked(b, hotel) ==
    LET conflict == get_conflict_on_board(b)
    IN  IF ~conflict.some
        THEN [ok |-> FALSE, board |-> b]
        ELSE [ok |-> TRUE,
              board |-> flood_hotel(b, conflict.row, conflict.col, hotel)]

\* Result<(), &str> and the board resolve_conflict leaves
resolve_conflict(b, hotel) ==
    IF hotel \notin acceptable_conflict_resolutions(b)
    THEN [ok |-> FALSE, board |-> b]
    ELSE LET conflict == get_conflict_on_board(b)
         IN  [ok |-> TRUE,
              board |-> flood_hotel(b, conflict.row, conflict.col, hotel)]

place_initial_tile(b, row, col) == [b EXCEPT ![<<row, col>>] = Independent]

\* replace_defunct_hotel_with_surviving_hotel leaving the defunct chain on
\* the board
replace_defunct_hotel_leaving_the_board(b, defunct_hotel, surviving_hotel) == b

replace_defunct_hotel_with_surviving_hotel(b, defunct_hotel, surviving_hotel) ==
    [t \in Cells |->
        IF b[t] = HotelCell(defunct_hotel)
        THEN HotelCell(surviving_hotel)
        ELSE b[t]]


(***************************************************************************)
(* player.rs, acquire_request.rs, acquire_game_state.rs, game_states/      *)
(***************************************************************************)
Players == 0..(NumPlayers - 1)

\* Player::new; the hand (a Vec filled from the pool, so without
\* duplicates) is kept as a set
\* Player::new with a share of Tower in the player's hands
NewPlayer_holding_a_share ==
    [stocks |-> [hotel \in Hotels |-> IF hotel = "Tower" THEN 1 ELSE 0],
     cash |-> STARTING_CASH,
     tiles |-> {}]

NewPlayer ==
    [stocks |-> [hotel \in Hotels |-> 0], cash |-> STARTING_CASH, tiles |-> {}]

Request(kind, player) == [kind |-> kind, player |-> player]
DisposeStockRequest == [kind |-> "DisposeStock"]

GameStartState_new(number_of_players) ==
    [phase |-> "GameStart",
     player_with_winning_tile |-> USIZE_MAX,
     winning_tile |-> <<USIZE_MAX, USIZE_MAX>>,
     remaining_number_of_players |-> number_of_players]

PlayTileState(player) == [phase |-> "PlayTile", player |-> player]

BuyStockState_new(player) ==
    [phase |-> "BuyStock", player |-> player,
     buys_remaining |-> STOCK_TO_BUY_PER_TURN]

DisposeStockState_new(merge_maker, surviving_chain, defunct_chain, remaining) ==
    [phase |-> "DisposeStock",
     merge_maker |-> merge_maker,
     surviving_chain |-> surviving_chain,
     defunct_chain |-> defunct_chain,
     remaining_shares_per_player |-> remaining]

\* MergerState::new without its panic, which the callers model
MergerState_new(merge_maker, surviving_hotel, b) ==
    LET conflict == get_conflict_on_board(b)
    IN  [phase |-> "Merger",
         merge_maker |-> merge_maker,
         surviving_hotel |-> surviving_hotel,
         hotel_to_merge |-> "None",
         defunct_hotels_remaining |->
             get_adjacent_hotels(b, conflict.row, conflict.col)
                 \ {surviving_hotel}]

\* whether MergerState::new finds the Merge conflict it needs
HasMergeConflict(b) ==
    /\ get_conflict_on_board(b).some
    /\ get_conflict_on_board(b).conflict_type # NewChain

\* called with defunct_hotels_remaining not empty (else .max().unwrap()
\* aborts, which the callers model)
get_largest_defunct_chains(merge_state, b) ==
    LET largest_defunct_chain_size ==
            Max({ get_hotel_chain_size(b, hotel) :
                    hotel \in merge_state.defunct_hotels_remaining })
    IN  { hotel \in merge_state.defunct_hotels_remaining :
            get_hotel_chain_size(b, hotel) = largest_defunct_chain_size }

\* Option<Hotel>
get_next_defunct_hotel(merge_state, b) ==
    LET largest_defunct_chains == get_largest_defunct_chains(merge_state, b)
    IN  IF Cardinality(largest_defunct_chains) = 1
        THEN [some |-> TRUE,
              hotel |-> CHOOSE hotel \in largest_defunct_chains : TRUE]
        ELSE [some |-> FALSE]

(***************************************************************************)
(* The random source behind take_random_tile (rand::thread_rng, which may   *)
(* pick any tile of the pool). The model follows the draws of one          *)
(* generator per seed: seed s yields the tiles of the pool in the order of *)
(* Deck, starting at Deck's tile number s. Deck opens with a written-out   *)
(* sequence, which deals chains that can merge into the first hands, and   *)
(* goes on with the other cells from the bottom-right corner.              *)
(***************************************************************************)
DeckHead ==
    << <<0, 1>>, <<1, 4>>, <<2, 1>>,
       <<0, 2>>, <<1, 3>>, <<2, 2>>,
       <<1, 2>>, <<0, 0>>, <<0, 3>> >>

\* every cell, from the bottom-right corner, by column and then by row
CellsFromCorner ==
    [i \in 1..(BOARD_ROWS * BOARD_COLS) |->
        << (BOARD_ROWS - 1) - ((i - 1) % BOARD_ROWS),
           (BOARD_COLS - 1) - ((i - 1) \div BOARD_ROWS) >>]

Deck ==
    DeckHead \o
    SelectSeq(CellsFromCorner,
              LAMBDA tile : \A i \in 1..Len(DeckHead) : DeckHead[i] # tile)

\* the place in Deck of the seed's k-th tile (k = 0, 1, ...)
DeckIndex(seed, k) == ((seed + k) % Len(Deck)) + 1

(***************************************************************************)
(* acquire_game.rs. An engine value g holds the fields of AcquireGame,     *)
(* with: result, the kind of value the current call returns; sent, the     *)
(* number of messages the current call has handed to the message callback; *)
(* paid, the payout the current call has made; panicked, whether the call  *)
(* has aborted; turns and bought, the number of turns ended and of         *)
(* purchases accepted so far; seed, the seed of the random source.         *)
(***************************************************************************)
NoPayout == [some |-> FALSE]

send_message(g, count) == [g EXCEPT !.sent = @ + count]

Panic(g) == [g EXCEPT !.panicked = TRUE]

\* the panic!("Cannot ... without a ... state") of a handler that finds
\* another phase than its own
PanicWithoutState(g) == [g EXCEPT !.panicked = TRUE, !.without_state = TRUE]

\* The ledger of the DisposeStock phase in progress: quota is each player's
\* holding in the defunct chain when begin_stock_disposal built the phase,
\* handled the shares the player's accepted choices have named so far (the
\* shares_to_handle of each choice, the number its message reports). The
\* engine keeps no such record; it is history kept beside it.
NoDisposal(seats) ==
    [quota |-> [p \in seats |-> 0], handled |-> [p \in seats |-> 0]]

NewDisposal(holdings) ==
    [quota |-> holdings, handled |-> [p \in DOMAIN holdings |-> 0]]

AcquireGame_new(number_of_players, seed) ==
    [players |-> [p \in 0..(number_of_players - 1) |-> NewPlayer],
     board |-> NewBoard,
     available_tiles |-> Cells,
     available_stock |-> [hotel \in Hotels |-> MAX_STOCK_PER_HOTEL],
     current_request |-> Request("PlayStartingTile", 0),
     current_state |-> GameStartState_new(number_of_players),
     result |-> "Ok",
     sent |-> 1,
     paid |-> NoPayout,
     panicked |-> FALSE,
     without_state |-> FALSE,
     turns |-> 0,
     bought |-> 0,
     disposal |-> NoDisposal(0..(number_of_players - 1)),
     seed |-> seed]

get_current_stock_price(g, hotel) ==
    get_stock_value(hotel, get_hotel_chain_size(g.board, hotel))

\* the tile take_random_tile returns; the caller models the abort of
\* .unwrap() on an empty pool
random_tile(g) ==
    LET first == CHOOSE k \in 0..(Len(Deck) - 1) :
                     /\ Deck[DeckIndex(g.seed, k)] \in g.available_tiles
                     /\ \A j \in 0..(k - 1) :
                            Deck[DeckIndex(g.seed, j)] \notin g.available_tiles
    IN  Deck[DeckIndex(g.seed, first)]

\* give_player_tile pushing a tile that take_random_tile leaves in the pool
push_tile_keeping_the_pool(g, player, tile) ==
    [g EXCEPT !.players[player].tiles = @ \cup {tile}]

\* take_random_tile's removal of the tile and give_player_tile's push
push_tile(g, player, tile) ==
    [g EXCEPT !.available_tiles = @ \ {tile},
              !.players[player].tiles = @ \cup {tile}]

give_player_tile(g, player) ==
    IF g.available_tiles = {}
    THEN Panic(g)
    ELSE push_tile(g, player, random_tile(g))

\* end_turn once the player has been given a tile
end_turn_next(g, next_player) ==
    IF g.panicked
    THEN g
    ELSE [send_message(g, 1) EXCEPT
             !.current_request = Request("PlayTile", next_player),
             !.current_state = PlayTileState(next_player),
             !.turns = @ + 1]

end_turn(g, player) ==
    end_turn_next(give_player_tile(send_message(g, 1), player),
                  (player + 1) % Cardinality(DOMAIN g.players))

\* give_player_stock handing out shares that the bank keeps
give_player_stock_keeping_the_bank(g, hotel, player, shares) ==
    IF g.available_stock[hotel] < shares
    THEN g
    ELSE [send_message(g, 1) EXCEPT
             !.players[player].stocks[hotel] = @ + shares]

give_player_stock(g, hotel, player, shares) ==
    IF g.available_stock[hotel] < shares
    THEN g
    ELSE [send_message(g, 1) EXCEPT
             !.players[player].stocks[hotel] = @ + shares,
             !.available_stock[hotel] = @ - shares]

\* take_back_players_stock taking the shares without returning them to the
\* bank
take_back_players_stock_keeping_the_bank(g, hotel, player, shares) ==
    IF g.players[player].stocks[hotel] < shares
    THEN g
    ELSE [g EXCEPT !.players[player].stocks[hotel] = @ - shares]

take_back_players_stock(g, hotel, player, shares) ==
    IF g.players[player].stocks[hotel] < shares
    THEN g
    ELSE [g EXCEPT !.players[player].stocks[hotel] = @ - shares,
                   !.available_stock[hotel] = @ + shares]

\* sell_off_players_stock paying the price of one share whatever the number
\* of shares sold
sell_off_players_stock_pays_one_share(g, hotel, player, shares) ==
    IF g.players[player].stocks[hotel] < shares
    THEN g
    ELSE [send_message(g, 1) EXCEPT
             !.players[player].cash = @ + get_current_stock_price(g, hotel),
             !.available_stock[hotel] = @ + shares,
             !.players[player].stocks[hotel] = @ - shares]

sell_off_players_stock(g, hotel, player, shares) ==
    IF g.players[player].stocks[hotel] < shares
    THEN g
    ELSE LET stock_value == get_current_stock_price(g, hotel)
             payout == stock_value * shares
         IN  [send_message(g, 1) EXCEPT
                 !.players[player].cash = @ + payout,
                 !.available_stock[hotel] = @ + shares,
                 !.players[player].stocks[hotel] = @ - shares]

\* start_buy_stock_phase asking for a purchase whenever a chain is active
start_buy_stock_phase_when_sold_out(g, player) ==
    IF get_active_hotels(g.board) = {}
    THEN end_turn(send_message(g, 1), player)
    ELSE [g EXCEPT !.current_request = Request("BuyStock", player),
                   !.current_state = BuyStockState_new(player)]

start_buy_stock_phase(g, player) ==
    LET active_hotels == get_active_hotels(g.board)
    IN  IF active_hotels = {}
        THEN end_turn(send_message(g, 1), player)
        ELSE IF \A hotel \in active_hotels : g.available_stock[hotel] = 0
        THEN end_turn(send_message(g, 1), player)
        ELSE [g EXCEPT !.current_request = Request("BuyStock", player),
                       !.current_state = BuyStockState_new(player)]

\* the first loop of pay_out_defunct_chain over players i, i + 1, ...:
\* <<max_shares, second_max_shares>>
RECURSIVE find_max_shares(_, _, _, _)
find_max_shares(shares, i, max_shares, second_max_shares) ==
    IF i \notin DOMAIN shares
    THEN <<max_shares, second_max_shares>>
    ELSE IF shares[i] > max_shares
    THEN find_max_shares(shares, i + 1, shares[i], max_shares)
    ELSE IF shares[i] > second_max_shares /\ shares[i] < max_shares
    THEN find_max_shares(shares, i + 1, max_shares, shares[i])
    ELSE find_max_shares(shares, i + 1, max_shares, second_max_shares)

\* the players among the first `count` entries of an index array
distribute_payouts_array(g, indices, count, total_payout) ==
    IF count = 0
    THEN g
    ELSE LET payout_per_player == total_payout \div count
         IN  [send_message(g, count) EXCEPT
                 !.players = [p \in DOMAIN g.players |->
                     IF p \in indices
                     THEN [g.players[p] EXCEPT !.cash = @ + payout_per_player]
                     ELSE g.players[p]]]

\* the payout the call has made: the holdings, the cash before and after
record_payout(g, paid_g, defunct_hotel, defunct_chain_size, shares) ==
    [paid_g EXCEPT !.paid =
        [some |-> TRUE,
         hotel |-> defunct_hotel,
         size |-> defunct_chain_size,
         shares |-> shares,
         before |-> [p \in DOMAIN g.players |-> g.players[p].cash],
         after |-> [p \in DOMAIN g.players |-> paid_g.players[p].cash]]]

\* pay_out_defunct_chain from "Distribute payouts to minority stockholders"
pay_out_minority(g, minority_indices, min_count, total_minority_payout) ==
    IF total_minority_payout > 0
    THEN distribute_payouts_array(
             send_message(g, IF min_count = 1 THEN 1 ELSE 1 + min_count),
             minority_indices, min_count, total_minority_payout)
    ELSE g

\* pay_out_defunct_chain from "Distribute payouts to majority stockholders"
pay_out_classified(g, defunct_hotel, size, majority_indices, minority_indices) ==
    LET majority_payout ==
            get_majority_holder_bonus(defunct_hotel, size)
        minority_payout ==
            get_minority_holder_bonus(defunct_hotel, size)
        maj_count == Cardinality(majority_indices)
        min_count == Cardinality(minority_indices)
        fold == min_count = 0 \/ maj_count > 1
        total_majority_payout ==
            IF fold THEN majority_payout + minority_payout ELSE majority_payout
        total_minority_payout == IF fold THEN 0 ELSE minority_payout
    IN  pay_out_minority(
            distribute_payouts_array(
                send_message(g, IF maj_count = 1 THEN 1 ELSE 1 + maj_count),
                majority_indices, maj_count, total_majority_payout),
            minority_indices, min_count, total_minority_payout)

\* pay_out_defunct_chain from "Classify stockholders into majority and
\* minority"
pay_out_found(g, defunct_hotel, size, shares, max_shares, second_max_shares) ==
    pay_out_classified(g, defunct_hotel, size,
        { p \in DOMAIN shares : shares[p] = max_shares },
        { p \in DOMAIN shares :
            shares[p] # max_shares /\ shares[p] = second_max_shares })

pay_out_shares(g, defunct_hotel, defunct_chain_size, shares, found) ==
    record_payout(g,
        pay_out_found(g, defunct_hotel, defunct_chain_size, shares,
                      found[1], found[2]),
        defunct_hotel, defunct_chain_size, shares)

HoldingsOf(g, hotel) == [p \in DOMAIN g.players |-> g.players[p].stocks[hotel]]

pay_out_defunct_chain(g, defunct_hotel) ==
    pay_out_shares(g, defunct_hotel,
                   get_hotel_chain_size(g.board, defunct_hotel),
                   HoldingsOf(g, defunct_hotel),
                   find_max_shares(HoldingsOf(g, defunct_hotel), 0, 0, 0))

\* begin_stock_disposal without its last statement, the new request
begin_stock_disposal_keeps_request(g, defunct_hotel) ==
    IF g.current_state.phase # "Merger"
    THEN PanicWithoutState(g)
    ELSE [send_message(g, 1) EXCEPT
             !.current_state =
                 DisposeStockState_new(g.current_state.merge_maker,
                                       g.current_state.surviving_hotel,
                                       defunct_hotel,
                                       HoldingsOf(g, defunct_hotel)),
             !.disposal = NewDisposal(HoldingsOf(g, defunct_hotel))]

begin_stock_disposal(g, defunct_hotel) ==
    IF g.current_state.phase # "Merger"
    THEN PanicWithoutState(g)
    ELSE [send_message(g, 1) EXCEPT
             !.current_state =
                 DisposeStockState_new(g.current_state.merge_maker,
                                       g.current_state.surviving_hotel,
                                       defunct_hotel,
                                       HoldingsOf(g, defunct_hotel)),
             !.current_request = DisposeStockRequest,
             !.disposal = NewDisposal(HoldingsOf(g, defunct_hotel))]

handle_defunct_hotel(g, defunct_hotel) ==
    IF g.current_state.phase # "Merger"
    THEN PanicWithoutState(g)
    ELSE begin_stock_disposal(
             pay_out_defunct_chain(send_message(g, 1), defunct_hotel),
             defunct_hotel)

\* the match of determine_next_defunct_hotel
resolve_next_defunct_hotel(g, next) ==
    IF next.some
    THEN handle_defunct_hotel(g, next.hotel)
    ELSE [send_message(g, 1) EXCEPT
             !.current_request =
                 Request("ChooseDefunctChainToResolve",
                         g.current_state.merge_maker)]

determine_next_defunct_hotel(g) ==
    IF g.current_state.phase # "Merger"
    THEN PanicWithoutState(g)
    ELSE IF g.current_state.defunct_hotels_remaining = {}
    THEN Panic(g)
    ELSE resolve_next_defunct_hotel(g,
             get_next_defunct_hotel(g.current_state, g.board))

\* start_merge_phase once MergerState::new has returned
enter_merge_state(g, merge_state) ==
    determine_next_defunct_hotel(
        [send_message(g, 2 + Cardinality(merge_state.defunct_hotels_remaining))
            EXCEPT !.current_state = merge_state])

start_merge_phase(g, merge_maker, merge_survivor) ==
    IF ~HasMergeConflict(g.board)
    THEN Panic(g)
    ELSE enter_merge_state(g,
             MergerState_new(merge_maker, merge_survivor, g.board))

\* continue_merge_phase once MergerState::new has returned
continue_merge_state(g, merge_state) ==
    IF merge_state.defunct_hotels_remaining = {}
    THEN start_buy_stock_phase(
             [send_message(g, 3) EXCEPT !.board =
                 resolve_conflict(g.board, merge_state.surviving_hotel).board],
             merge_state.merge_maker)
    ELSE determine_next_defunct_hotel(
             [send_message(g, 1) EXCEPT !.current_state = merge_state])

continue_merge_phase(g, merge_maker, merge_survivor) ==
    IF ~HasMergeConflict(g.board)
    THEN Panic(g)
    ELSE continue_merge_state(g,
             MergerState_new(merge_maker, merge_survivor, g.board))

RECURSIVE deal_tiles(_, _, _)
\* the loops of handle_game_start_complete: round `round` from `player` on
deal_tiles(g, round, player) ==
    IF round >= HAND_SIZE
    THEN g
    ELSE IF player \notin DOMAIN g.players
    THEN deal_tiles(g, round + 1, 0)
    ELSE IF g.available_tiles = {}
    THEN Panic(g)
    ELSE deal_tiles(give_player_tile(g, player), round, player + 1)

\* handle_game_start_complete once the hands are dealt
start_first_turn(g, player_with_winning_tile) ==
    IF g.panicked
    THEN g
    ELSE [g EXCEPT
             !.current_state = PlayTileState(player_with_winning_tile),
             !.current_request = Request("PlayTile", player_with_winning_tile)]

handle_game_start_complete(g) ==
    IF g.current_state.phase # "GameStart"
    THEN PanicWithoutState(g)
    ELSE start_first_turn(deal_tiles(send_message(g, 2), 0, 0),
                          g.current_state.player_with_winning_tile)

\* Ok(()) and Err(..) of a handler: the engine it leaves and the kind of
\* the result. The Err strings "Invalid response to ..." are the
\* ProtocolMismatch errors, every other Err string is an InvalidMove.
Ok(g) == IF g.panicked THEN g ELSE [g EXCEPT !.result = "Ok"]
\* Err that first hands the error's text to the message callback
Err_logged(g, kind) == [send_message(g, 1) EXCEPT !.result = kind]

Err(g, kind) == [g EXCEPT !.result = kind]

\* the arm "_ =>" returning Ok(()): a mismatched response silently dropped
ProtocolMismatch_ignored(g) == Ok(g)

\* the arm "_ =>" of handle_player_response
ProtocolMismatch(g) == Err(g, "ProtocolMismatch")

\* GameStartState::player_played_tile without its panic: the state it
\* leaves
player_played_tile(game_start_state, player, tile) ==
    LET s1 == IF TileLess(tile, game_start_state.winning_tile)
              THEN [game_start_state EXCEPT !.winning_tile = tile,
                                            !.player_with_winning_tile = player]
              ELSE game_start_state
    IN  [s1 EXCEPT !.remaining_number_of_players = @ - 1]

\* handle_starting_tile_response once the tile is placed and counted
starting_tile_played(g, player) ==
    IF g.current_state.remaining_number_of_players = 0
    THEN handle_game_start_complete(g)
    ELSE [g EXCEPT !.current_request =
             Request("PlayStartingTile",
                     (player + 1) % Cardinality(DOMAIN g.players))]

handle_starting_tile_response(g, tile, player) ==
    IF tile \in g.available_tiles
    THEN Panic(g)
    ELSE IF get_cell_state(g.board, tile[1], tile[2]) # Empty
    THEN Panic(g)
    ELSE IF g.current_state.phase # "GameStart"
    THEN PanicWithoutState(g)
    ELSE IF g.current_state.remaining_number_of_players = 0
    THEN Panic(g)
    ELSE starting_tile_played(
             [send_message(g, 1) EXCEPT
                 !.board = place_initial_tile(g.board, tile[1], tile[2]),
                 !.current_state =
                     player_played_tile(g.current_state, player, tile)],
             player)

\* the Merge arm of handle_tile_response
\* the Merge arm asking for the survivor whatever the sizes
handle_merge_conflict_always_asks(g, player, largest_chains_in_merger) ==
    [send_message(g, 2) EXCEPT
        !.current_request = Request("ChooseMergerSurvivor", player)]

handle_merge_conflict(g, player, largest_chains_in_merger) ==
    IF Cardinality(largest_chains_in_merger) = 1
    THEN start_merge_phase(g, player,
             CHOOSE hotel \in largest_chains_in_merger : TRUE)
    ELSE [send_message(g, 2) EXCEPT
             !.current_request = Request("ChooseMergerSurvivor", player)]

\* the Success and ConflictCreated arms of handle_tile_response
handle_placed_tile(g, player, place_tile_result) ==
    IF place_tile_result.kind = "Success"
    THEN start_buy_stock_phase(g, player)
    ELSE IF place_tile_result.conflict_type = NewChain
    THEN [send_message(g, 2) EXCEPT
             !.current_request = Request("ChooseNewChain", player)]
    ELSE handle_merge_conflict(g, player,
             acceptable_conflict_resolutions(g.board))

\* the end of handle_tile_response leaving the tile in the hand
remove_tile_from_hand_keeping_it(g, tile, player) == Ok(g)

\* the end of handle_tile_response: "remove tile from player's hand"
remove_tile_from_hand(g, tile, player) ==
    Ok([g EXCEPT !.players[player].tiles = @ \ {tile}])

\* handle_tile_response from its match on
handle_place_tile_result(g, tile, player, placed) ==
    IF placed.result.kind = "CellNotPlayable"
    THEN Err(g, "InvalidMove")
    ELSE remove_tile_from_hand(
             handle_placed_tile(
                 [send_message(g, 1) EXCEPT !.board = placed.board],
                 player, placed.result),
             tile, player)

handle_tile_response(g, tile, player) ==
    IF tile \in g.available_tiles
    THEN Panic(g)
    ELSE IF get_cell_state(g.board, tile[1], tile[2]) # Empty
    THEN Panic(g)
    ELSE IF tile \notin g.players[player].tiles
    THEN Panic(g)
    ELSE handle_place_tile_result(g, tile, player,
             place_tile(g.board, tile[1], tile[2]))

\* handle_new_chain_response without the test of the hotel
handle_new_chain_response_unchecked(g, hotel, player) ==
    Ok(start_buy_stock_phase(
           IF g.available_stock[hotel] > 0
           THEN give_player_stock(
                    [send_message(g, 2) EXCEPT !.board =
                        resolve_conflict(g.board, hotel).board],
                    hotel, player, 1)
           ELSE [send_message(g, 2) EXCEPT !.board =
                    resolve_conflict(g.board, hotel).board],
           player))

handle_new_chain_response(g, hotel, player) ==
    IF hotel \notin get_inactive_hotels(g.board)
    THEN Err(g, "InvalidMove")
    ELSE Ok(start_buy_stock_phase(
                IF g.available_stock[hotel] > 0
                THEN give_player_stock(
                         [send_message(g, 2) EXCEPT !.board =
                             resolve_conflict(g.board, hotel).board],
                         hotel, player, 1)
                ELSE [send_message(g, 2) EXCEPT !.board =
                         resolve_conflict(g.board, hotel).board],
                player))

handle_merger_survivor_response(g, hotel, player) ==
    start_merge_phase(send_message(g, 1), player, hotel)

handle_defunct_chain_response(g, hotel, player) ==
    handle_defunct_hotel(send_message(g, 1), hotel)

\* DisposeStockState::player_handled_stock without its panic: the state it
\* leaves; its result is AllDisposed of that state
player_handled_stock(dispose_stock_state, player, shares) ==
    [dispose_stock_state EXCEPT !.remaining_shares_per_player[player] = @ - shares]

AllDisposed(dispose_stock_state) ==
    \A p \in DOMAIN dispose_stock_state.remaining_shares_per_player :
        dispose_stock_state.remaining_shares_per_player[p] = 0

DisposeStockChoices == {"Keep", "Sell", "Trade", "SellAll", "KeepAll", "TradeAll"}

shares_to_handle_of(choice, remaining_shares) ==
    CASE choice = "Keep" -> 1
      [] choice = "Sell" -> 1
      [] choice = "Trade" -> 2
      [] choice = "SellAll" -> remaining_shares
      [] choice = "KeepAll" -> remaining_shares
      [] choice = "TradeAll" -> (remaining_shares \div 2) * 2

\* the shares the choice's branch hands to player_handled_stock
shares_handled_of(choice, shares_to_handle) ==
    IF choice \in {"Keep", "KeepAll"} THEN 1 ELSE shares_to_handle

\* the arms of the second match of handle_dispose_stock_response
dispose_shares(g, choice, player, shares_to_handle) ==
    IF choice \in {"Keep", "KeepAll"}
    THEN send_message(g, 1)
    ELSE IF choice \in {"Sell", "SellAll"}
    THEN sell_off_players_stock(send_message(g, 1),
                                g.current_state.defunct_chain, player,
                                shares_to_handle)
    ELSE take_back_players_stock(
             give_player_stock(g, g.current_state.surviving_chain, player,
                               shares_to_handle \div 2),
             g.current_state.defunct_chain, player, shares_to_handle)

\* handle_dispose_stock_response from "if next_phase" on
end_stock_disposal(g) ==
    IF AllDisposed(g.current_state)
    THEN continue_merge_phase(
             [send_message(g, 1) EXCEPT
                 !.board =
                     replace_defunct_hotel_with_surviving_hotel(
                         g.board, g.current_state.defunct_chain,
                         g.current_state.surviving_chain),
                 !.disposal = NoDisposal(DOMAIN g.players)],
             g.current_state.merge_maker, g.current_state.surviving_chain)
    ELSE g

handle_dispose_stock_response(g, choice, player) ==
    IF g.current_state.phase # "DisposeStock"
    THEN PanicWithoutState(g)
    ELSE IF player \notin DOMAIN g.current_state.remaining_shares_per_player
    THEN Panic(g)
    ELSE
    LET dispose_stock_state == g.current_state
        merge_survivor == dispose_stock_state.surviving_chain
        remaining_shares == dispose_stock_state.remaining_shares_per_player[player]
        shares_to_handle == shares_to_handle_of(choice, remaining_shares)
        stock_to_receive == shares_to_handle \div 2
        handled == shares_handled_of(choice, shares_to_handle)
    IN  IF remaining_shares = 0
        THEN Err(g, "InvalidMove")
        ELSE IF shares_to_handle > remaining_shares
        THEN Err(g, "InvalidMove")
        ELSE IF shares_to_handle = 0
        THEN Err(g, "InvalidMove")
        ELSE IF /\ choice \in {"Trade", "TradeAll"}
                /\ g.available_stock[merge_survivor] < stock_to_receive
        THEN Err(g, "InvalidMove")
        ELSE IF handled > remaining_shares
        THEN Panic(g)
        ELSE Ok(end_stock_disposal(
                    dispose_shares(
                        [g EXCEPT
                            !.current_state =
                                player_handled_stock(dispose_stock_state,
                                                     player, handled),
                            !.disposal.handled[player] = @ + shares_to_handle],
                        choice, player, shares_to_handle)))

Pass == [kind |-> "Pass"]
Buy(hotel) == [kind |-> "Buy", hotel |-> hotel]

\* the Buy arm charging the price of a chain of two cells
buy_stock_at_founding_price(g, hotel, player, stock_value) ==
    give_player_stock(
        [send_message(g, 1) EXCEPT
            !.current_state.buys_remaining = @ - 1,
            !.players[player].cash = @ - get_stock_value(hotel, 2),
            !.bought = @ + 1],
        hotel, player, 1)

\* the Buy arm of handle_buy_stock_response once the checks have passed
buy_stock(g, hotel, player, stock_value) ==
    give_player_stock(
        [send_message(g, 1) EXCEPT
            !.current_state.buys_remaining = @ - 1,
            !.players[player].cash = @ - stock_value,
            !.bought = @ + 1],
        hotel, player, 1)

\* handle_buy_stock_response ending the turn on a Pass only
end_buy_stock_on_pass_only(g, end_phase, player) ==
    IF end_phase /\ g.current_state.buys_remaining > 0
    THEN end_turn(g, player)
    ELSE g

\* handle_buy_stock_response from "if end_phase" on
end_buy_stock(g, end_phase, player) ==
    IF end_phase THEN end_turn(g, player) ELSE g

\* the Buy arm's refusals without the test of the player's cash
buy_refused_whatever_the_cash(g, hotel, player, stock_value) ==
    \/ g.available_stock[hotel] = 0
    \/ hotel \notin get_active_hotels(g.board)

\* the three tests of the Buy arm that return Err, in the code's order
buy_refused(g, hotel, player, stock_value) ==
    \/ g.available_stock[hotel] = 0
    \/ stock_value > g.players[player].cash
    \/ hotel \notin get_active_hotels(g.board)

handle_buy_stock_response(g, choice) ==
    IF g.current_state.phase # "BuyStock"
    THEN PanicWithoutState(g)
    ELSE
    LET buy_stock_state == g.current_state
        player == buy_stock_state.player
    IN  IF choice = Pass
        THEN Ok(end_buy_stock(send_message(g, 1), TRUE, player))
        ELSE
        LET hotel == choice.hotel
            stock_value ==
                get_stock_value(hotel, get_hotel_chain_size(g.board, hotel))
        IN  IF buy_refused(g, hotel, player, stock_value)
            THEN Err(g, "InvalidMove")
            ELSE IF buy_stock_state.buys_remaining = 0
            THEN Panic(g)
            ELSE Ok(end_buy_stock(buy_stock(g, hotel, player, stock_value),
                                  buy_stock_state.buys_remaining - 1 = 0,
                                  player))

handle_end_game_response(g, quit, player) == g

handle_player_response(g, response) ==
    LET kind == g.current_request.kind
    IN  CASE kind = "PlayStartingTile" ->
            IF response.kind = "StartingTile"
            THEN IF g.available_tiles = {}
                 THEN Panic(g)
                 ELSE Ok(handle_starting_tile_response(
                             [g EXCEPT !.available_tiles = @ \ {random_tile(g)}],
                             random_tile(g), g.current_request.player))
            ELSE ProtocolMismatch(g)
          [] kind = "PlayTile" ->
            IF response.kind = "Tile"
            THEN handle_tile_response(g, response.tile, g.current_request.player)
            ELSE ProtocolMismatch(g)
          [] kind = "ChooseNewChain" ->
            IF response.kind = "NewChain"
            THEN handle_new_chain_response(g, response.hotel,
                                           g.current_request.player)
            ELSE ProtocolMismatch(g)
          [] kind = "ChooseMergerSurvivor" ->
            IF response.kind = "MergerSurvivor"
            THEN Ok(handle_merger_survivor_response(
                        g, response.hotel, g.current_request.player))
            ELSE ProtocolMismatch(g)
          [] kind = "ChooseDefunctChainToResolve" ->
            IF response.kind = "DefunctChainToResolve"
            THEN Ok(handle_defunct_chain_response(
                        g, response.hotel, g.current_request.player))
            ELSE ProtocolMismatch(g)
          [] kind = "DisposeStock" ->
            IF response.kind = "DisposeStock"
            THEN handle_dispose_stock_response(g, response.choice,
                                               response.player)
            ELSE ProtocolMismatch(g)
          [] kind = "BuyStock" ->
            IF response.kind = "BuyStock"
            THEN handle_buy_stock_response(g, response.choice)
            ELSE ProtocolMismatch(g)
          [] kind = "EndGame" ->
            IF response.kind = "EndGame"
            THEN Ok(handle_end_game_response(g, response.quit,
                                             g.current_request.player))
            ELSE ProtocolMismatch(g)

(***************************************************************************)
(* The state machine: the engine's fields, and what the latest call of     *)
(* handle_player_response returned (result: "Ok", "ProtocolMismatch",      *)
(* "InvalidMove", or "Panic", "PanicWithoutState" when it aborted the      *)
(* process), how many                                                      *)
(* messages it sent and which payout it made.                              *)
(***************************************************************************)
VARIABLES players, board, available_tiles, available_stock, current_request,
          current_state, result, sent, paid, turns, bought, disposal, seed

vars == << players, board, available_tiles, available_stock, current_request,
           current_state, result, sent, paid, turns, bought, disposal, seed >>

\* the fields a caller can observe between calls
engine == << players, board, available_tiles, available_stock, current_request,
             current_state >>

\* the engine as a call of handle_player_response finds it
Self ==
    [players |-> players,
     board |-> board,
     available_tiles |-> available_tiles,
     available_stock |-> available_stock,
     current_request |-> current_request,
     current_state |-> current_state,
     result |-> "Ok",
     sent |-> 0,
     paid |-> NoPayout,
     panicked |-> FALSE,
     without_state |-> FALSE,
     turns |-> turns,
     bought |-> bought,
     disposal |-> disposal,
     seed |-> seed]

\* the engine as a call leaves it; a call that panics ends the process
Commit(g) ==
    IF g.panicked
    THEN /\ result' = IF g.without_state THEN "PanicWithoutState" ELSE "Panic"
         /\ UNCHANGED << engine, sent, paid, turns, bought, disposal, seed >>
    ELSE /\ players' = g.players
         /\ board' = g.board
         /\ available_tiles' = g.available_tiles
         /\ available_stock' = g.available_stock
         /\ current_request' = g.current_request
         /\ current_state' = g.current_state
         /\ result' = g.result
         /\ sent' = g.sent
         /\ paid' = g.paid
         /\ turns' = g.turns
         /\ bought' = g.bought
         /\ disposal' = g.disposal
         /\ seed' = g.seed

Init ==
    \E s \in 0..MaxSeed :
        LET g == AcquireGame_new(NumPlayers, s)
        IN  /\ players = g.players
            /\ board = g.board
            /\ available_tiles = g.available_tiles
            /\ available_stock = g.available_stock
            /\ current_request = g.current_request
            /\ current_state = g.current_state
            /\ result = g.result
            /\ sent = g.sent
            /\ paid = g.paid
            /\ turns = g.turns
            /\ bought = g.bought
            /\ disposal = g.disposal
            /\ seed = g.seed

\* the responses the model hands to the engine
TileInputs ==
    ((0..(InRows - 1)) \X (0..(InCols - 1))) \cup { <<BOARD_ROWS, BOARD_COLS>> }

HotelInputs == { HotelIter[i] : i \in 1..MaxHotelInputs }

PlayerInputs == 0..NumPlayers

\* the turns after the rounds that led to the position of SpecMarket
InMarket == turns >= NumPlayers * MarketRounds

\* the turns after the rounds that led to the position of SpecSafe
InSafe == turns >= NumPlayers * SafeRounds

\* the turn that follows the rounds that led to the position of SpecMerger
InMerger ==
    /\ turns >= NumPlayers * MergerRounds
    /\ turns < NumPlayers * MergerRounds + SafeTurns

\* the turns that leave LastPool tiles or fewer in the pool: each seat took
\* a starting tile and a hand from the 108, and each turn since took one
InLast ==
    turns >= BOARD_ROWS * BOARD_COLS - NumPlayers * (HAND_SIZE + 1) - LastPool

\* A run is followed up to its first rejected or aborted call. A rejected
\* call leaves the engine as it found it, so what can follow it is what can
\* follow the state before it. A game from its start with a seed up to
\* MaxSeed is followed until MaxTurns turns have ended and while no
\* player's cash exceeds MaxCash; with a higher seed, to the end of the
\* GameStart phase; the position of SpecMarket, for MarketTurns turns; the
\* position of SpecSafe, for SafeTurns turns and while no player's cash
\* exceeds SafeMaxCash.
Running ==
    /\ result = "Ok"
    /\ \/ /\ seed <= MaxSeed
          /\ turns < MaxTurns
          /\ \A p \in DOMAIN players : players[p].cash <= MaxCash
       \/ /\ seed > MaxSeed
          /\ current_state.phase = "GameStart"
       \/ /\ InMarket
          /\ turns < NumPlayers * MarketRounds + MarketTurns
       \/ /\ InSafe
          /\ turns < NumPlayers * SafeRounds + SafeTurns
          /\ \A p \in DOMAIN players : players[p].cash <= SafeMaxCash
       \/ /\ InMerger
          /\ \A p \in DOMAIN players : players[p].cash <= SafeMaxCash
       \/ InLast

RespondStartingTile ==
    /\ Running
    /\ Commit(handle_player_response(Self, [kind |-> "StartingTile"]))

RespondTile(tile) ==
    /\ Running
    /\ Commit(handle_player_response(Self, [kind |-> "Tile", tile |-> tile]))

RespondNewChain(hotel) ==
    /\ Running
    /\ Commit(handle_player_response(Self,
                  [kind |-> "NewChain", hotel |-> hotel]))

RespondMergerSurvivor(hotel) ==
    /\ Running
    /\ (InMerger /\ current_request.kind = "ChooseMergerSurvivor") =>
           hotel \in acceptable_conflict_resolutions(board)
    /\ Commit(handle_player_response(Self,
                  [kind |-> "MergerSurvivor", hotel |-> hotel]))

RespondDefunctChainToResolve(hotel) ==
    /\ Running
    /\ (InMerger /\ current_request.kind = "ChooseDefunctChainToResolve") =>
           hotel \in get_largest_defunct_chains(current_state, board)
    /\ Commit(handle_player_response(Self,
                  [kind |-> "DefunctChainToResolve", hotel |-> hotel]))

RespondDisposeStock(player, choice) ==
    /\ Running
    /\ Commit(handle_player_response(Self,
                  [kind |-> "DisposeStock", player |-> player,
                   choice |-> choice]))

RespondBuy(hotel) ==
    /\ Running
    /\ bought < MaxBuys \/ InMarket
    /\ Commit(handle_player_response(Self,
                  [kind |-> "BuyStock", choice |-> Buy(hotel)]))

RespondPass ==
    /\ Running
    /\ Commit(handle_player_response(Self,
                  [kind |-> "BuyStock", choice |-> Pass]))

RespondEndGame(quit) ==
    /\ Running
    /\ Commit(handle_player_response(Self, [kind |-> "EndGame", quit |-> quit]))

Next ==
    \/ RespondStartingTile
    \/ \E tile \in TileInputs : RespondTile(tile)
    \/ \E hotel \in HotelInputs : RespondNewChain(hotel)
    \/ \E hotel \in HotelInputs : RespondMergerSurvivor(hotel)
    \/ \E hotel \in HotelInputs : RespondDefunctChainToResolve(hotel)
    \/ \E player \in PlayerInputs, choice \in DisposeStockChoices :
           RespondDisposeStock(player, choice)
    \/ \E hotel \in HotelInputs : RespondBuy(hotel)
    \/ RespondPass
    \/ \E quit \in BOOLEAN : RespondEndGame(quit)

Spec == Init /\ [][Next]_vars

(***************************************************************************)
(* A position late in a game, for the properties of the stock market that  *)
(* the first turns cannot show (a chain sold out, a player out of cash,    *)
(* three purchases in one turn). Seat 0 founded American on (0,1), (0,2)   *)
(* in the first turn and MarketRounds rounds went by in which every tile   *)
(* played touched nothing and the players bought American at its price of  *)
(* size 2. Seat 0 is to play. The position varies in seat 0's holding      *)
(* (its cash is what the purchases left of STARTING_CASH) and in the       *)
(* bank's stock of American; the other seats hold the rest of the 25       *)
(* shares. Hands: seat 0 can lengthen American with (0,3), start a chain   *)
(* with (2,4) or play (2,3), which touches nothing.                        *)
(***************************************************************************)
MarketChain == "American"

MarketPrice == get_stock_value(MarketChain, 2)

\* seat 0's holding, the founder's share included: nothing bought, cash for
\* exactly one more share, no cash left
MarketHoldings ==
    { 1, STARTING_CASH \div MarketPrice, STARTING_CASH \div MarketPrice + 1 }

\* the bank's stock of American
MarketBank == { 0, 1, STOCK_TO_BUY_PER_TURN }

MarketLoneTiles ==
    { t \in Cells : t[1] \in {4, 6, 8} /\ t[2] % 2 = 0 } \cup { <<2, 7>>, <<2, 9>> }

MarketBoard ==
    [t \in Cells |->
        IF t \in { <<0, 1>>, <<0, 2>> } THEN HotelCell(MarketChain)
        ELSE IF t \in { <<1, 4>>, <<2, 1>> } \cup MarketLoneTiles THEN Independent
        ELSE Empty]

MarketHand(p) ==
    IF p = 0 THEN { <<0, 3>>, <<2, 4>>, <<2, 3>>, <<0, 4>>, <<3, 0>>, <<3, 2>> }
    ELSE IF p = 1 THEN { <<0, 0>>, <<2, 0>>, <<1, 1>>, <<1, 0>>, <<3, 4>>, <<3, 5>> }
    ELSE { t \in Cells : t[1] \in {0, 1} /\ t[2] \in (3 * p)..(3 * p + 2) }

\* shares of American a seat holds: seat 0 holds held, seats 1 and 2 share
\* what neither seat 0 nor the bank holds
MarketHolding(p, held, bank) ==
    IF p = 0 THEN held
    ELSE IF p = 1 THEN (MAX_STOCK_PER_HOTEL - held - bank + 1) \div 2
    ELSE IF p = 2 THEN (MAX_STOCK_PER_HOTEL - held - bank) \div 2
    ELSE 0

\* shares a seat paid for: all it holds, but for the founder's free share
MarketBought(p, held, bank) ==
    IF p = 0 THEN held - 1 ELSE MarketHolding(p, held, bank)

MarketPosition(held, bank) ==
    [players |->
         [p \in Players |->
             [stocks |-> [hotel \in Hotels |->
                             IF hotel = MarketChain
                             THEN MarketHolding(p, held, bank) ELSE 0],
              cash |-> STARTING_CASH - MarketPrice * MarketBought(p, held, bank),
              tiles |-> MarketHand(p)]],
     board |-> MarketBoard,
     available_tiles |->
         { t \in Cells : /\ MarketBoard[t] = Empty
                         /\ \A p \in Players : t \notin MarketHand(p) },
     available_stock |->
         [hotel \in Hotels |->
             IF hotel = MarketChain THEN bank ELSE MAX_STOCK_PER_HOTEL],
     current_request |-> Request("PlayTile", 0),
     current_state |-> PlayTileState(0),
     result |-> "Ok",
     sent |-> 0,
     paid |-> NoPayout,
     panicked |-> FALSE,
     without_state |-> FALSE,
     turns |-> NumPlayers * MarketRounds,
     bought |-> MAX_STOCK_PER_HOTEL - bank - 1,
     disposal |-> NoDisposal(Players),
     seed |-> 0]

\* Games from their start under the seeds above MaxSeed, for the properties
\* of the GameStart phase: the three starting tiles differ from seed to seed.
StartInit ==
    \E s \in (MaxSeed + 1)..MaxStartSeed :
        LET g == AcquireGame_new(NumPlayers, s)
        IN  /\ players = g.players
            /\ board = g.board
            /\ available_tiles = g.available_tiles
            /\ available_stock = g.available_stock
            /\ current_request = g.current_request
            /\ current_state = g.current_state
            /\ result = g.result
            /\ sent = g.sent
            /\ paid = g.paid
            /\ turns = g.turns
            /\ bought = g.bought
            /\ disposal = g.disposal
            /\ seed = g.seed

SpecStart == StartInit /\ [][Next]_vars

MarketInit ==
    \E held \in MarketHoldings, bank \in MarketBank :
        LET g == MarketPosition(held, bank)
        IN  /\ MAX_STOCK_PER_HOTEL - held - bank >= 0
            /\ players = g.players
            /\ board = g.board
            /\ available_tiles = g.available_tiles
            /\ available_stock = g.available_stock
            /\ current_request = g.current_request
            /\ current_state = g.current_state
            /\ result = g.result
            /\ sent = g.sent
            /\ paid = g.paid
            /\ turns = g.turns
            /\ bought = g.bought
            /\ disposal = g.disposal
            /\ seed = g.seed

SpecMarket == MarketInit /\ [][Next]_vars

\* the first turns of a game and the late position, side by side
SpecGame == (Init \/ MarketInit) /\ [][Next]_vars

(***************************************************************************)
(* A position with a safe chain, which the first turns cannot reach.       *)
(* Tower has SAFE_CHAIN_SIZE cells: (2,5) to (2,11) and (3,11) to (6,11);  *)
(* an Independent tile lies on (0,0). Seat 0 is to play and holds (2,4),   *)
(* which touches Tower, and (0,1) and (1,0), each of which would start a   *)
(* chain with (0,0). The position comes in two kinds. In the first Luxor   *)
(* lies on (0,4), (1,4) and American on (2,2), (2,3), so that (2,4) merges *)
(* three chains, two of them tied; each chain's founder holds its free     *)
(* share (Luxor: seat 0, American: seat 1, Tower: seat 2) and seat 0 has   *)
(* bought one more share of Luxor. In the second Tower is the only chain:  *)
(* Luxor has not been founded, and American was merged into Tower in an    *)
(* earlier turn, at size 2, after seats 1 and 2 had bought all of its      *)
(* stock; they have kept their shares, so that the chain is inactive and   *)
(* the bank holds none of it.                                              *)
(***************************************************************************)
SafeChain == "Tower"

SafeCells ==
    { t \in Cells : \/ t[1] = 2 /\ t[2] >= 5
                    \/ t[2] = BOARD_COLS - 1 /\ t[1] \in 3..6 }

SafeBoard(merged) ==
    [t \in Cells |->
        IF t \in SafeCells THEN HotelCell(SafeChain)
        ELSE IF t \in { <<0, 4>>, <<1, 4>> } /\ ~merged THEN HotelCell("Luxor")
        ELSE IF t \in { <<2, 2>>, <<2, 3>> } /\ ~merged THEN HotelCell("American")
        ELSE IF t = <<0, 0>> THEN Independent
        ELSE Empty]

SafeHand(p) ==
    IF p = 0 THEN { <<2, 4>>, <<1, 3>>, <<0, 1>>, <<1, 0>>, <<8, 0>>, <<8, 2>> }
    ELSE { t \in Cells : t[1] \in {7, 8} /\ t[2] \in (3 * p)..(3 * p + 2) }

\* the shares a seat holds
SafeHolding(p, hotel, merged) ==
    CASE hotel = "Luxor" -> IF p = 0 /\ ~merged THEN 2 ELSE 0
      [] hotel = "American" ->
           IF merged
           THEN (IF p = 1 THEN (MAX_STOCK_PER_HOTEL + 1) \div 2
                 ELSE IF p = 2 THEN MAX_STOCK_PER_HOTEL \div 2 ELSE 0)
           ELSE (IF p = 1 THEN 1 ELSE 0)
      [] hotel = SafeChain -> IF p = 2 THEN 1 ELSE 0
      [] OTHER -> 0

\* the shares a seat paid for: all it holds, but for a founder's free share
SafeBought(p, hotel, merged) ==
    IF SafeHolding(p, hotel, merged) = 0 THEN 0
    ELSE IF (hotel = "Luxor" /\ p = 0) \/ (hotel = "American" /\ p = 1)
             \/ (hotel = SafeChain /\ p = 2)
    THEN SafeHolding(p, hotel, merged) - 1
    ELSE SafeHolding(p, hotel, merged)

\* a seat's cash: the purchases were made at the price of size 2; in the
\* second kind the merger of American paid seat 1 the majority bonus and
\* seat 2 the minority bonus
SafeCash(p, merged) ==
    STARTING_CASH
    - get_stock_value("Luxor", 2) * SafeBought(p, "Luxor", merged)
    - get_stock_value("American", 2) * SafeBought(p, "American", merged)
    + (IF merged /\ p = 1 THEN get_majority_holder_bonus("American", 2)
       ELSE IF merged /\ p = 2 THEN get_minority_holder_bonus("American", 2)
       ELSE 0)

SafePosition(merged) ==
    [players |->
         [p \in Players |->
             [stocks |-> [hotel \in Hotels |-> SafeHolding(p, hotel, merged)],
              cash |-> SafeCash(p, merged),
              tiles |-> SafeHand(p)]],
     board |-> SafeBoard(merged),
     available_tiles |->
         { t \in Cells : /\ SafeBoard(merged)[t] = Empty
                         /\ \A p \in Players : t \notin SafeHand(p) },
     available_stock |->
         [hotel \in Hotels |->
             MAX_STOCK_PER_HOTEL
             - SafeHolding(0, hotel, merged) - SafeHolding(1, hotel, merged)
             - SafeHolding(2, hotel, merged)],
     current_request |-> Request("PlayTile", 0),
     current_state |-> PlayTileState(0),
     result |-> "Ok",
     sent |-> 0,
     paid |-> NoPayout,
     panicked |-> FALSE,
     without_state |-> FALSE,
     turns |-> NumPlayers * SafeRounds,
     bought |-> IF merged THEN MAX_STOCK_PER_HOTEL - 1 ELSE 1,
     disposal |-> NoDisposal(Players),
     seed |-> 0]

SafeInit ==
    \E merged \in BOOLEAN :
        LET g == SafePosition(merged)
        IN  /\ players = g.players
            /\ board = g.board
            /\ available_tiles = g.available_tiles
            /\ available_stock = g.available_stock
            /\ current_request = g.current_request
            /\ current_state = g.current_state
            /\ result = g.result
            /\ sent = g.sent
            /\ paid = g.paid
            /\ turns = g.turns
            /\ bought = g.bought
            /\ disposal = g.disposal
            /\ seed = g.seed

SpecSafe == SafeInit /\ [][Next]_vars

\* the same positions, reached after MergerRounds rounds by a caller that
\* names acceptable chains only and keeps answering for as long as the run
\* is followed
MergerInit ==
    \E merged \in BOOLEAN :
        LET g == SafePosition(merged)
        IN  /\ players = g.players
            /\ board = g.board
            /\ available_tiles = g.available_tiles
            /\ available_stock = g.available_stock
            /\ current_request = g.current_request
            /\ current_state = g.current_state
            /\ result = g.result
            /\ sent = g.sent
            /\ paid = g.paid
            /\ turns = NumPlayers * MergerRounds
            /\ bought = g.bought
            /\ disposal = g.disposal
            /\ seed = g.seed

SpecMerger == MergerInit /\ [][Next]_vars /\ WF_vars(Next)

\* The end of a game in which every player passed at each BuyStock request:
\* Tower, founded by seat 0, fills the columns 0..5 and Luxor, founded by
\* seat 1, the columns 7..11; both are safe, and the cells of column 6 lie
\* between them. The cells still Empty are the tiles of the hands and of
\* the pool.
LastHand(p) ==
    CASE p = 0 -> { <<2, 0>>, <<2, 1>>, <<2, 2>>, <<2, 3>>, <<2, 4>>, <<1, 4>> }
      [] p = 1 -> { t \in Cells : t[2] = 6 /\ t[1] <= 5 }
      [] p = 2 -> { <<6, 6>>, <<7, 6>>, <<8, 6>>, <<8, 0>>, <<8, 1>>, <<8, 2>> }
      [] OTHER -> { t \in Cells : t[2] = 14 - p /\ t[1] <= 5 }

LastTiles(pool) == { t \in Cells : t[1] = 8 /\ t[2] \in 3..(2 + pool) }

LastBoard(pool) ==
    [t \in Cells |->
        IF t \in LastTiles(pool) \/ \E p \in Players : t \in LastHand(p) THEN Empty
        ELSE IF t[2] <= 5 THEN HotelCell("Tower")
        ELSE HotelCell("Luxor")]

LastPosition(pool) ==
    [players |->
         [p \in Players |->
             [stocks |-> [hotel \in Hotels |->
                             IF (p = 0 /\ hotel = "Tower") \/ (p = 1 /\ hotel = "Luxor")
                             THEN 1 ELSE 0],
              cash |-> STARTING_CASH,
              tiles |-> LastHand(p)]],
     board |-> LastBoard(pool),
     available_tiles |-> LastTiles(pool),
     available_stock |->
         [hotel \in Hotels |->
             IF hotel \in {"Tower", "Luxor"} THEN MAX_STOCK_PER_HOTEL - 1
             ELSE MAX_STOCK_PER_HOTEL],
     current_request |-> Request("PlayTile", 0),
     current_state |-> PlayTileState(0),
     result |-> "Ok",
     sent |-> 0,
     paid |-> NoPayout,
     panicked |-> FALSE,
     without_state |-> FALSE,
     turns |-> BOARD_ROWS * BOARD_COLS - NumPlayers * (HAND_SIZE + 1) - pool,
     bought |-> 0,
     disposal |-> NoDisposal(Players),
     seed |-> 0]

LastInit ==
    \E pool \in 0..LastPool :
        LET g == LastPosition(pool)
        IN  /\ players = g.players
            /\ board = g.board
            /\ available_tiles = g.available_tiles
            /\ available_stock = g.available_stock
            /\ current_request = g.current_request
            /\ current_state = g.current_state
            /\ result = g.result
            /\ sent = g.sent
            /\ paid = g.paid
            /\ turns = g.turns
            /\ bought = g.bought
            /\ disposal = g.disposal
            /\ seed = g.seed

SpecLast == LastInit /\ [][Next]_vars

\* the first turns of a game and its end, side by side
SpecHands == (Init \/ LastInit) /\ [][Next]_vars

(***************************************************************************)
(* The board on its own, for the properties of GameBoard's functions:      *)
(* place_tile and resolve_conflict are called on a board as a caller of    *)
(* the type may call them, in any order. The boards at the start: the      *)
(* board of a new game; a board with two safe chains, Tower on (2,3) to    *)
(* (2,11), (3,11), (4,11) and Luxor on (3,2) to (8,2), (8,3) to (8,7),     *)
(* which both touch (2,2), and American on (0,2), (1,2); a board on which  *)
(* all seven chains are active, of two cells each, Tower on (3,2), (4,2)   *)
(* and Luxor on (2,3), (2,4) both touching (2,2), with an Independent tile *)
(* on (0,0).                                                               *)
(***************************************************************************)
BoardSafe ==
    [t \in Cells |->
        IF (t[1] = 2 /\ t[2] >= 3) \/ (t[2] = BOARD_COLS - 1 /\ t[1] \in {3, 4})
        THEN HotelCell("Tower")
        ELSE IF (t[2] = 2 /\ t[1] >= 3) \/ (t[1] = BOARD_ROWS - 1 /\ t[2] \in 3..7)
        THEN HotelCell("Luxor")
        ELSE IF t \in { <<0, 2>>, <<1, 2>> } THEN HotelCell("American")
        ELSE Empty]

BoardFull ==
    [t \in Cells |->
        IF t = <<0, 0>> THEN Independent
        ELSE IF t \in { <<3, 2>>, <<4, 2>> } THEN HotelCell(HotelIter[1])
        ELSE IF t \in { <<2, 3>>, <<2, 4>> } THEN HotelCell(HotelIter[2])
        ELSE IF t[1] = 6 /\ t[2] % 3 # 2 THEN HotelCell(HotelIter[3 + t[2] \div 3])
        ELSE IF t \in { <<8, 0>>, <<8, 1>> } THEN HotelCell(HotelIter[HotelCount])
        ELSE Empty]

BoardPositions == { NewBoard, BoardSafe, BoardFull }

\* the cells SpecBoard names: those among the model's tiles that are Empty
\* on each of these boards, and the cell off the board
BoardFree ==
    { t \in TileInputs \cap Cells : \A b \in BoardPositions : b[t] = Empty }

BoardInputs == BoardFree \cup (TileInputs \ Cells)

BoardInit ==
    \E b \in BoardPositions :
        LET g == AcquireGame_new(NumPlayers, 0)
        IN  /\ players = g.players
            /\ board = b
            /\ available_tiles = g.available_tiles
            /\ available_stock = g.available_stock
            /\ current_request = g.current_request
            /\ current_state = g.current_state
            /\ result = g.result
            /\ sent = g.sent
            /\ paid = g.paid
            /\ turns = g.turns
            /\ bought = g.bought
            /\ disposal = g.disposal
            /\ seed = g.seed

PlaceTile(tile) ==
    /\ Cardinality({ t \in BoardFree : board[t] # Empty }) < BoardTiles
    /\ board' = place_tile(board, tile[1], tile[2]).board
    /\ UNCHANGED << players, available_tiles, available_stock, current_request,
                    current_state, result, sent, paid, turns, bought, disposal,
                    seed >>

ResolveConflict(hotel) ==
    /\ board' = resolve_conflict(board, hotel).board
    /\ UNCHANGED << players, available_tiles, available_stock, current_request,
                    current_state, result, sent, paid, turns, bought, disposal,
                    seed >>

BoardNext ==
    \/ \E tile \in BoardInputs : PlaceTile(tile)
    \/ \E hotel \in HotelInputs : ResolveConflict(hotel)

SpecBoard == BoardInit /\ [][BoardNext]_vars

(***************************************************************************)
(* One chain growing over the whole board, for the prices of every size:   *)
(* the chain starts on (0,0), (0,1) and place_tile lengthens it cell by    *)
(* cell, row after row, to the BOARD_ROWS * BOARD_COLS cells of the board. *)
(***************************************************************************)
PriceBoard(hotel) ==
    [t \in Cells |->
        IF t \in { <<0, 0>>, <<0, 1>> } THEN HotelCell(hotel) ELSE Empty]

PriceInit ==
    \E hotel \in Hotels :
        LET g == AcquireGame_new(NumPlayers, 0)
        IN  /\ players = g.players
            /\ board = PriceBoard(hotel)
            /\ available_tiles = g.available_tiles
            /\ available_stock = g.available_stock
            /\ current_request = g.current_request
            /\ current_state = g.current_state
            /\ result = g.result
            /\ sent = g.sent
            /\ paid = g.paid
            /\ turns = g.turns
            /\ bought = g.bought
            /\ disposal = g.disposal
            /\ seed = g.seed

\* the cell after the occupied ones, row by row
NextCell(b) ==
    << Cardinality({ t \in Cells : b[t] # Empty }) \div BOARD_COLS,
       Cardinality({ t \in Cells : b[t] # Empty }) % BOARD_COLS >>

LengthenChain ==
    /\ NextCell(board) \in Cells
    /\ board' = place_tile(board, NextCell(board)[1], NextCell(board)[2]).board
    /\ UNCHANGED << players, available_tiles, available_stock, current_request,
                    current_state, result, sent, paid, turns, bought, disposal,
                    seed >>

PriceNext == LengthenChain

SpecPrice == PriceInit /\ [][PriceNext]_vars


(***************************************************************************)
(* The properties. Call(response) is the engine as the call                *)
(* handle_player_response(response) leaves the current engine; a property  *)
(* that quantifies over responses holds in a state when it holds of every  *)
(* response that can be handed to the engine in that state.                *)
(***************************************************************************)
Responses ==
    { [kind |-> "StartingTile"] }
    \cup { [kind |-> "Tile", tile |-> tile] : tile \in TileInputs }
    \cup { [kind |-> "NewChain", hotel |-> hotel] : hotel \in HotelInputs }
    \cup { [kind |-> "MergerSurvivor", hotel |-> hotel] : hotel \in HotelInputs }
    \cup { [kind |-> "DefunctChainToResolve", hotel |-> hotel] :
             hotel \in HotelInputs }
    \cup { [kind |-> "DisposeStock", player |-> player, choice |-> choice] :
             player \in PlayerInputs, choice \in DisposeStockChoices }
    \cup { [kind |-> "BuyStock", choice |-> Buy(hotel)] : hotel \in HotelInputs }
    \cup { [kind |-> "BuyStock", choice |-> Pass] }
    \cup { [kind |-> "EndGame", quit |-> quit] : quit \in BOOLEAN }

\* the response shape a request expects
ExpectedShape(request_kind) ==
    CASE request_kind = "PlayStartingTile" -> "StartingTile"
      [] request_kind = "PlayTile" -> "Tile"
      [] request_kind = "ChooseNewChain" -> "NewChain"
      [] request_kind = "ChooseMergerSurvivor" -> "MergerSurvivor"
      [] request_kind = "ChooseDefunctChainToResolve" -> "DefunctChainToResolve"
      [] request_kind = "DisposeStock" -> "DisposeStock"
      [] request_kind = "BuyStock" -> "BuyStock"
      [] request_kind = "EndGame" -> "EndGame"

Call(response) == handle_player_response(Self, response)

Errors == {"ProtocolMismatch", "InvalidMove"}

\* the call returned the InvalidMove error value and changed nothing
RejectedUnchanged(g) ==
    /\ ~g.panicked
    /\ g.result = "InvalidMove"
    /\ g.players = players
    /\ g.board = board
    /\ g.available_tiles = available_tiles
    /\ g.available_stock = available_stock
    /\ g.current_state = current_state
    /\ g.current_request = current_request
    /\ g.paid = NoPayout

\* C1: every call of handle_player_response that returns an error leaves
\* the board, the players (cash, holdings, hands), the bank stock, the tile
\* pool, the phase and the outstanding request as they were before the
\* call, and hands no message to the log.
C1_RejectedCallChangesNothing ==
    [][result' \in Errors => (engine' = engine /\ sent' = 0)]_vars

\* a Buy of an inactive chain has been rejected in a BuyStock phase
C1_Witness ==
    /\ result = "InvalidMove"
    /\ current_request.kind = "BuyStock"

\* C2: in every reachable state, every response whose shape is not the one
\* the outstanding request expects makes handle_player_response return the
\* ProtocolMismatch error, with the outstanding request unchanged.
C2_MismatchedShapeIsRejected ==
    \A response \in Responses :
        response.kind # ExpectedShape(current_request.kind) =>
            /\ ~Call(response).panicked
            /\ Call(response).result = "ProtocolMismatch"
            /\ Call(response).current_request = current_request

\* a response of another shape has been handed to ChooseMergerSurvivor
C2_Witness ==
    /\ result = "ProtocolMismatch"
    /\ current_request.kind = "ChooseMergerSurvivor"

\* C3: after every call the phase and the outstanding request agree:
\* PlayStartingTile only in phase GameStart; DisposeStock exactly in phase
\* DisposeStock; BuyStock(p) exactly in phase BuyStock of player p; phase
\* Merger only with ChooseDefunctChainToResolve(merge maker); PlayTile(p),
\* ChooseNewChain(p) and ChooseMergerSurvivor(p) only in phase PlayTile(p);
\* and no call aborts with "Cannot ... without a ... state".
C3_PhaseMatchesRequest ==
    /\ current_request.kind = "PlayStartingTile" =>
           current_state.phase = "GameStart"
    /\ current_request.kind = "DisposeStock" <=>
           current_state.phase = "DisposeStock"
    /\ current_request.kind = "BuyStock" <=> current_state.phase = "BuyStock"
    /\ current_request.kind = "BuyStock" =>
           current_state.player = current_request.player
    /\ current_state.phase = "Merger" =>
           current_request =
               Request("ChooseDefunctChainToResolve", current_state.merge_maker)
    /\ current_request.kind
           \in {"PlayTile", "ChooseNewChain", "ChooseMergerSurvivor"} =>
           current_state = PlayTileState(current_request.player)
    /\ result # "PanicWithoutState"

\* a merger waits for the merge maker to choose among tied defunct chains
C3_Witness ==
    /\ result = "Ok"
    /\ current_state.phase = "Merger"
    /\ get_conflict_on_board(board).conflict_type = Merge(2)
    /\ current_request.kind = "ChooseDefunctChainToResolve"

\* C4: while the request is PlayTile(p), a Tile response naming a cell that
\* is_cell_playable refuses (off the board, not Empty, an 8th chain, between
\* safe chains) returns the InvalidMove error without aborting, and leaves
\* the hands, the board and the request as they were.
C4_IllegalTileIsInvalidMove ==
    current_request.kind = "PlayTile" =>
        \A tile \in TileInputs :
            is_cell_playable(board, tile[1], tile[2]) # "Playable" =>
                RejectedUnchanged(Call([kind |-> "Tile", tile |-> tile]))

\* C5: while the request is ChooseMergerSurvivor(p), a MergerSurvivor(h)
\* response with h not among the adjacent chains tied for the largest size
\* returns InvalidMove, starts no merger and leaves the request as it was.
C5_SurvivorMustBeAcceptable ==
    current_request.kind = "ChooseMergerSurvivor" =>
        \A hotel \in HotelInputs \ acceptable_conflict_resolutions(board) :
            RejectedUnchanged(Call([kind |-> "MergerSurvivor", hotel |-> hotel]))

\* C6: while the request is ChooseDefunctChainToResolve(p), a
\* DefunctChainToResolve(h) response with h not among the remaining defunct
\* chains tied for the largest size returns InvalidMove, makes no payout,
\* begins no disposal and leaves the request as it was.
C6_DefunctMustBeLargestRemaining ==
    current_request.kind = "ChooseDefunctChainToResolve" =>
        \A hotel \in HotelInputs
                        \ get_largest_defunct_chains(current_state, board) :
            RejectedUnchanged(
                Call([kind |-> "DefunctChainToResolve", hotel |-> hotel]))

\* The payout rule as the specification words it: the majority set is the
\* players holding the highest holding, when it is above 0; the minority
\* set is the players holding the highest holding strictly below it, among
\* the players who hold stock.
MaxHolding(shares) == Max({ shares[p] : p \in DOMAIN shares })

MajoritySet(shares) ==
    { p \in DOMAIN shares : shares[p] > 0 /\ shares[p] = MaxHolding(shares) }

HoldersBelow(shares) ==
    { p \in DOMAIN shares : shares[p] > 0 /\ shares[p] < MaxHolding(shares) }

MinoritySet(shares) ==
    { p \in HoldersBelow(shares) :
        \A q \in HoldersBelow(shares) : shares[q] <= shares[p] }

Folded(shares) ==
    MinoritySet(shares) = {} \/ Cardinality(MajoritySet(shares)) > 1

\* what the latest call's payout has added to the player's cash
Received(p) == paid.after[p] - paid.before[p]

MajorityBonus == get_majority_holder_bonus(paid.hotel, paid.size)
MinorityBonus == get_minority_holder_bonus(paid.hotel, paid.size)

\* C7: in every payout, a player who holds no share of the defunct chain
\* receives no cash.
C7_ZeroHoldersReceiveNothing ==
    paid.some =>
        \A p \in DOMAIN paid.shares : paid.shares[p] = 0 => Received(p) = 0

\* C8: in a payout whose minority set is empty or whose majority set has
\* more than one member, the majority set shares the majority bonus plus
\* the minority bonus and every other player's cash is unchanged (so a sole
\* holder receives both bonuses).
C8_MinorityBonusFoldsIntoMajority ==
    (paid.some /\ Folded(paid.shares)) =>
        \A p \in DOMAIN paid.shares :
            Received(p) =
                IF p \in MajoritySet(paid.shares)
                THEN (MajorityBonus + MinorityBonus)
                         \div Cardinality(MajoritySet(paid.shares))
                ELSE 0

\* C9: in every payout each member of the majority set receives
\* floor(M / |majority set|), M being the majority bonus plus, when it is
\* folded, the minority bonus; and when the minority bonus is distributed
\* each member of the minority set receives
\* floor(minority bonus / |minority set|).
C9_BonusesAreSplitEvenly ==
    paid.some =>
        /\ \A p \in MajoritySet(paid.shares) :
               Received(p) =
                   (IF Folded(paid.shares)
                    THEN MajorityBonus + MinorityBonus
                    ELSE MajorityBonus)
                       \div Cardinality(MajoritySet(paid.shares))
        /\ ~Folded(paid.shares) =>
               \A p \in MinoritySet(paid.shares) :
                   Received(p) =
                       MinorityBonus \div Cardinality(MinoritySet(paid.shares))

\* the remaining count the choice is to leave a player who had remaining
RemainingAfter(choice, remaining) ==
    CASE choice \in {"KeepAll", "SellAll"} -> 0
      [] choice = "TradeAll" -> remaining % 2
      [] choice \in {"Keep", "Sell"} -> remaining - 1
      [] choice = "Trade" -> remaining - 2

\* C10: in the DisposeStock phase an accepted KeepAll or SellAll leaves the
\* player's remaining count at 0, an accepted TradeAll at its previous
\* value modulo 2, an accepted Keep or Sell lowers it by 1 and an accepted
\* Trade by 2 (read in the disposal state when the call leaves the phase
\* open).
C10_DisposalLowersRemainingCount ==
    current_request.kind = "DisposeStock" =>
        \A player \in DOMAIN players, choice \in DisposeStockChoices :
            LET g == Call([kind |-> "DisposeStock", player |-> player,
                           choice |-> choice])
            IN  (/\ ~g.panicked
                 /\ g.result = "Ok"
                 /\ g.current_state.phase = "DisposeStock"
                 /\ g.current_state.defunct_chain = current_state.defunct_chain)
                => g.current_state.remaining_shares_per_player[player] =
                       RemainingAfter(choice,
                           current_state.remaining_shares_per_player[player])

\* the ledger entry of a player once a response naming shares_to_handle
\* shares of player's has been accepted
HandledAfter(p, player, shares_to_handle) ==
    disposal.handled[p] + (IF p = player THEN shares_to_handle ELSE 0)

\* C11: at every point of a DisposeStock phase the shares a player has kept,
\* sold and traded so far plus the player's remaining count equal the
\* player's holding in the defunct chain when the phase began; and the
\* accepted response that ends the phase leaves every player's kept + sold +
\* traded total equal to that holding.
C11_DisposalQuota ==
    current_state.phase = "DisposeStock" =>
        /\ \A p \in Players :
               disposal.handled[p] + current_state.remaining_shares_per_player[p]
                   = disposal.quota[p]
        /\ \A player \in Players, choice \in DisposeStockChoices :
               LET g == Call([kind |-> "DisposeStock", player |-> player, choice |-> choice])
               IN  (/\ ~g.panicked
                    /\ g.result = "Ok"
                    /\ g.disposal.handled[player] = 0)
                   => \A p \in Players :
                          HandledAfter(p, player, shares_to_handle_of(choice, current_state.remaining_shares_per_player[player]))
                              = disposal.quota[p]

\* the cash a call left a player with, apart from a payout the same call made
CashApartFromPayout(g, p) ==
    IF g.paid.some THEN g.paid.before[p] ELSE g.players[p].cash

\* C12: a Trade of k defunct shares (2 for Trade, the even part of the
\* remaining count for TradeAll) is accepted only if the bank holds at least
\* k/2 survivor shares; accepted, it lowers the player's defunct holding by k,
\* raises the survivor holding by k/2, raises the bank's defunct stock by k,
\* lowers the bank's survivor stock by k/2 and leaves the player's cash alone;
\* with fewer than k/2 survivor shares in the bank, or a remaining count
\* below 2, it is rejected.
C12_TradeExchangesTwoForOne ==
    current_state.phase = "DisposeStock" =>
        \A player \in Players, choice \in {"Trade", "TradeAll"} :
            LET remaining == current_state.remaining_shares_per_player[player]
                k == IF choice = "Trade" THEN 2 ELSE (remaining \div 2) * 2
                defunct == current_state.defunct_chain
                survivor == current_state.surviving_chain
                g == Call([kind |-> "DisposeStock", player |-> player, choice |-> choice])
            IN  /\ ~g.panicked
                /\ (remaining < 2 \/ available_stock[survivor] < k \div 2)
                       => g.result \in Errors
                /\ g.result = "Ok" =>
                       /\ available_stock[survivor] >= k \div 2
                       /\ g.players[player].stocks[defunct] = players[player].stocks[defunct] - k
                       /\ g.players[player].stocks[survivor] = players[player].stocks[survivor] + k \div 2
                       /\ g.available_stock[defunct] = available_stock[defunct] + k
                       /\ g.available_stock[survivor] = available_stock[survivor] - k \div 2
                       /\ CashApartFromPayout(g, player) = players[player].cash

CountsLeft(player, choice) ==
    [current_state.remaining_shares_per_player EXCEPT ![player] = @ - shares_handled_of(choice, shares_to_handle_of(choice, @))]

\* the defunct chains a merger around cell still has to resolve on board b
DefunctLeft(b, cell, survivor) ==
    get_adjacent_hotels(b, cell.row, cell.col) \ {survivor}

LargestOf(b, chains) ==
    { hotel \in chains : \A other \in chains : get_hotel_chain_size(b, other) <= get_hotel_chain_size(b, hotel) }

\* what C14 expects of the call that ended the phase: g is the engine after
\* it, cell the conflict cell, merged the survivor's size plus the defunct
\* chain's size before it
MergerResumed(g, cell, survivor, maker, merged) ==
    IF DefunctLeft(g.board, cell, survivor) = {}
    THEN /\ get_cell_state(g.board, cell.row, cell.col) = HotelCell(survivor)
         /\ get_hotel_chain_size(g.board, survivor) >= merged + 1
         /\ \/ /\ g.current_request = Request("BuyStock", maker)
               /\ g.current_state = BuyStockState_new(maker)
            \/ /\ g.current_request = Request("PlayTile", (maker + 1) % NumPlayers)
               /\ g.current_state = PlayTileState((maker + 1) % NumPlayers)
               /\ g.turns = turns + 1
    ELSE /\ get_cell_state(g.board, cell.row, cell.col).tag = "Conflict"
         /\ get_hotel_chain_size(g.board, survivor) = merged
         /\ IF Cardinality(LargestOf(g.board, DefunctLeft(g.board, cell, survivor))) = 1
            THEN /\ g.paid.some
                 /\ g.paid.hotel \in DefunctLeft(g.board, cell, survivor)
                 /\ g.current_request = DisposeStockRequest
                 /\ g.current_state.phase = "DisposeStock"
                 /\ g.current_state.defunct_chain = g.paid.hotel
                 /\ g.current_state.surviving_chain = survivor
                 /\ g.current_state.merge_maker = maker
            ELSE /\ ~g.paid.some
                 /\ g.current_request = Request("ChooseDefunctChainToResolve", maker)
                 /\ g.current_state.phase = "Merger"
                 /\ g.current_state.surviving_hotel = survivor

\* C14: the DisposeStock phase ends exactly when an accepted response brings
\* every player's remaining count to 0; in that call every cell of the
\* defunct chain is relabelled to the survivor (the survivor grows by the
\* defunct chain's size, the defunct chain's size becomes 0) and the merger
\* resumes: the next defunct chain is paid out and a new DisposeStock phase
\* begins, or ChooseDefunctChainToResolve is asked on a tie, or, with no
\* defunct chain left, the conflict cell goes to the survivor and the merge
\* maker gets BuyStock or the turn ends by auto-skip.
C14_DisposalEndResumesMerger ==
    current_state.phase = "DisposeStock" =>
        \A player \in Players, choice \in DisposeStockChoices :
            LET g == Call([kind |-> "DisposeStock", player |-> player, choice |-> choice])
                defunct == current_state.defunct_chain
                survivor == current_state.surviving_chain
            IN  /\ ~g.panicked
                /\ g.result = "Ok" =>
                       IF \E p \in Players : CountsLeft(player, choice)[p] # 0
                       THEN /\ g.current_state = [current_state EXCEPT !.remaining_shares_per_player = CountsLeft(player, choice)]
                            /\ g.current_request = current_request
                            /\ g.board = board
                       ELSE /\ get_hotel_chain_size(g.board, defunct) = 0
                            /\ MergerResumed(g, get_conflict_on_board(board), survivor, current_state.merge_maker, get_hotel_chain_size(board, survivor) + get_hotel_chain_size(board, defunct))

BuyStockChoices == {Pass} \cup { Buy(hotel) : hotel \in HotelInputs }

\* the call that led to g ended player's turn: the player has drawn exactly
\* one tile of the pool and the next seat is asked for a tile
TurnEnded(g, player) ==
    /\ g.current_request = Request("PlayTile", (player + 1) % NumPlayers)
    /\ g.current_state = PlayTileState((player + 1) % NumPlayers)
    /\ \E tile \in available_tiles :
           /\ g.available_tiles = available_tiles \ {tile}
           /\ g.players[player].tiles = players[player].tiles \cup {tile}
           /\ tile \notin players[player].tiles

C16_ImpossibleBuyIsRejected ==
    current_request.kind = "BuyStock" =>
        \A hotel \in HotelInputs :
            (\/ available_stock[hotel] = 0
             \/ players[current_request.player].cash < get_stock_value(hotel, get_hotel_chain_size(board, hotel))
             \/ hotel \notin get_active_hotels(board))
                => RejectedUnchanged(Call([kind |-> "BuyStock", choice |-> Buy(hotel)]))

\* a Buy of a player without cash has been rejected
C16_Witness ==
    /\ result = "InvalidMove"
    /\ current_request.kind = "BuyStock"
    /\ players[current_request.player].cash = 0
    /\ \E hotel \in get_active_hotels(board) : available_stock[hotel] > 0

\* some active chain of g has stock left in the bank
StockOnOffer(g) ==
    \E hotel \in get_active_hotels(g.board) : g.available_stock[hotel] > 0

\* the player whose turn it is while a tile, a new chain or a disposal is
\* asked for
ActingPlayer ==
    IF current_state.phase = "DisposeStock"
    THEN current_state.merge_maker
    ELSE current_request.player

StartingTileOf(k) == Deck[DeckIndex(seed, k)]

ColumnThenRowBelow(a, b) == a[2] < b[2] \/ (a[2] = b[2] /\ a[1] < b[1])

LowestStartingTile(p) ==
    \A other \in Players \ {p} :
        ColumnThenRowBelow(StartingTileOf(p), StartingTileOf(other))

\* every player of g holds HAND_SIZE tiles taken from pool, no tile twice,
\* and g's pool is what is left of pool
HandsDealt(g, pool) ==
    /\ \A p \in Players :
           /\ Cardinality(g.players[p].tiles) = HAND_SIZE
           /\ g.players[p].tiles \subseteq pool
           /\ \A other \in Players \ {p} : g.players[p].tiles \cap g.players[other].tiles = {}
    /\ g.available_tiles = pool \ UNION { g.players[p].tiles : p \in Players }

\* C18: during GameStart the requests are PlayStartingTile(0), ...,
\* PlayStartingTile(n-1) in seat order, each answered by one starting tile
\* drawn from the pool and placed on the board as Independent; after the
\* n-th placement, in the same call, every player is dealt 6 tiles and the
\* request becomes PlayTile(w), w being the player whose starting tile is
\* the lowest in the column-then-row order of tiles.
C18_GameStartSeatsInOrder ==
    current_state.phase = "GameStart" =>
        LET seat == NumPlayers - current_state.remaining_number_of_players
            tile == StartingTileOf(seat)
            g == Call([kind |-> "StartingTile"])
        IN  /\ current_request = Request("PlayStartingTile", seat)
            /\ { t \in Cells : board[t] # Empty } = { StartingTileOf(k) : k \in 0..(seat - 1) }
            /\ \A p \in Players : players[p].tiles = {}
            /\ ~g.panicked
            /\ g.result = "Ok"
            /\ tile \in available_tiles
            /\ g.board = [board EXCEPT ![tile] = Independent]
            /\ IF seat < NumPlayers - 1
               THEN /\ g.current_request = Request("PlayStartingTile", seat + 1)
                    /\ g.current_state.phase = "GameStart"
                    /\ g.available_tiles = available_tiles \ {tile}
                    /\ g.players = players
               ELSE /\ HandsDealt(g, available_tiles \ {tile})
                    /\ g.current_request.kind = "PlayTile"
                    /\ LowestStartingTile(g.current_request.player)
                    /\ g.current_state = PlayTileState(g.current_request.player)

\* the starting tiles (1,4), (2,1), (0,2) have been placed, the hands are
\* dealt and seat 1, whose tile has the lowest column, is asked for a tile
C18_Witness ==
    /\ result = "Ok"
    /\ seed = 1
    /\ turns = 0
    /\ current_request = Request("PlayTile", 1)
    /\ board[<<2, 1>>] = Independent
    /\ board[<<0, 2>>] = Independent
    /\ \A p \in Players : Cardinality(players[p].tiles) = HAND_SIZE

\* the call that led to g asked nothing more of player's placement: the
\* purchases are open, or the turn has ended by auto-skip
PlacementDone(g, player) ==
    \/ g.current_request = Request("BuyStock", player)
    \/ /\ g.current_request = Request("PlayTile", (player + 1) % NumPlayers)
       /\ g.turns = turns + 1

\* the call that led to g has started the merger into survivor: the first
\* defunct chain is paid out and its DisposeStock phase is open, or the
\* merge maker is asked which defunct chain to resolve
MergerEntered(g, player, survivor) ==
    \/ /\ g.current_request = DisposeStockRequest
       /\ g.paid.some
       /\ g.current_state.phase = "DisposeStock"
       /\ g.current_state.surviving_chain = survivor
       /\ g.current_state.defunct_chain = g.paid.hotel
       /\ g.current_state.merge_maker = player
    \/ /\ g.current_request = Request("ChooseDefunctChainToResolve", player)
       /\ ~g.paid.some
       /\ g.current_state.phase = "Merger"
       /\ g.current_state.surviving_hotel = survivor
       /\ g.current_state.merge_maker = player

\* C19: an accepted Tile response to PlayTile(p) leads to exactly one of:
\* BuyStock(p) or the auto-skip turn end when the placement creates no
\* conflict; ChooseNewChain(p) when it creates a NewChain conflict; the
\* merger itself (payout and DisposeStock for the first defunct chain, or
\* ChooseDefunctChainToResolve(p)) when one adjacent chain is larger than
\* every other, which becomes the survivor; ChooseMergerSurvivor(p) when
\* two or more adjacent chains are tied for the largest size. In every case
\* the played tile leaves p's hand.
C19_TileResponseOutcomes ==
    current_request.kind = "PlayTile" =>
        \A tile \in TileInputs :
            LET p == current_request.player
                g == Call([kind |-> "Tile", tile |-> tile])
                adjacent == get_adjacent_hotels(board, tile[1], tile[2])
            IN  (~g.panicked /\ g.result = "Ok") =>
                    /\ tile \in players[p].tiles
                    /\ tile \notin g.players[p].tiles
                    /\ IF Cardinality(adjacent) >= 2
                       THEN IF Cardinality(LargestOf(board, adjacent)) = 1
                            THEN \E survivor \in LargestOf(board, adjacent) : MergerEntered(g, p, survivor)
                            ELSE /\ g.current_request = Request("ChooseMergerSurvivor", p)
                                 /\ ~g.paid.some
                       ELSE IF adjacent = {} /\ is_cell_next_to_independent(board, tile[1], tile[2])
                       THEN /\ g.current_request = Request("ChooseNewChain", p)
                            /\ get_cell_state(g.board, tile[1], tile[2]) = Conflict(NewChain)
                       ELSE /\ PlacementDone(g, p)
                            /\ get_conflict_on_board(g.board).some = FALSE

\* a tile joining a larger chain and a smaller one has been played: the
\* merger has started without a question about the survivor, and the tile
\* has left the merge maker's hand
C19_Witness ==
    /\ result = "Ok"
    /\ current_request = DisposeStockRequest
    /\ paid.some
    /\ current_state.phase = "DisposeStock"
    /\ get_hotel_chain_size(board, current_state.surviving_chain) > get_hotel_chain_size(board, current_state.defunct_chain)
    /\ get_hotel_chain_size(board, current_state.defunct_chain) >= 2
    /\ Cardinality(players[current_state.merge_maker].tiles) = HAND_SIZE - 1
    /\ disposal.handled = [p \in Players |-> 0]

\* the survivor of the merger g is in
SurvivorOf(g) ==
    IF g.current_state.phase = "DisposeStock"
    THEN g.current_state.surviving_chain
    ELSE g.current_state.surviving_hotel

\* the largest of the defunct chains the merger of g has not yet resolved
LargestDefunctLeft(g) ==
    LargestOf(g.board, DefunctLeft(g.board, get_conflict_on_board(g.board), SurvivorOf(g)))

\* what C20 expects of an accepted call that led to g in the middle of a
\* merger; asked tells whether the call answered ChooseDefunctChainToResolve
DefunctOrderKept(g, asked) ==
    /\ g.paid.some =>
           /\ g.current_request = DisposeStockRequest
           /\ g.current_state.phase = "DisposeStock"
           /\ g.current_state.defunct_chain = g.paid.hotel
           /\ g.paid.hotel \in LargestDefunctLeft(g)
           /\ asked \/ Cardinality(LargestDefunctLeft(g)) = 1
    /\ (g.current_state.phase = "DisposeStock" /\ \A p \in Players : g.disposal.handled[p] = 0)
           => g.paid.some
    /\ g.current_state.phase = "Merger" =>
           /\ g.current_request = Request("ChooseDefunctChainToResolve", g.current_state.merge_maker)
           /\ Cardinality(LargestDefunctLeft(g)) >= 2
           /\ ~asked

\* C20: within one merger the defunct chains are resolved one at a time,
\* largest first: the engine picks the next defunct chain by itself when
\* exactly one remaining defunct chain has the largest size and asks the
\* merge maker ChooseDefunctChainToResolve exactly when two or more are tied
\* for it; each defunct chain is paid out once, immediately before its
\* DisposeStock phase begins.
C20_DefunctChainsLargestFirst ==
    \A response \in Responses :
        LET g == Call(response)
        IN  (/\ ~g.panicked
             /\ g.result = "Ok"
             /\ g.current_state.phase \in {"Merger", "DisposeStock"})
                => DefunctOrderKept(g, response.kind = "DefunctChainToResolve")

\* the chains that are safe on the board
SafeChains(b) ==
    { hotel \in Hotels : get_hotel_chain_size(b, hotel) >= SAFE_CHAIN_SIZE }

\* C21: a safe chain (11 cells or more) is never merged away: no call makes
\* a chain of 11 cells or more the defunct chain of a payout or of a
\* DisposeStock phase, and no call relabels a cell of such a chain to
\* another chain.
C21_SafeChainNeverMergedAway ==
    [][/\ paid'.some => paid'.hotel \notin SafeChains(board)
       /\ current_state'.phase = "DisposeStock" =>
              current_state'.defunct_chain \notin SafeChains(board)
       /\ \A t \in Cells :
              (board[t].tag = "Hotel" /\ board[t].hotel \in SafeChains(board))
                  => board'[t] = board[t]]_vars

ConflictCells(b) == { t \in Cells : b[t].tag = "Conflict" }

\* C22: in every reachable state at most one cell of the board is in state
\* Conflict; and while a Conflict cell exists place_tile returns
\* CellNotPlayable(ConflictOnBoard) for every cell of the board and leaves
\* the board as it is, and the outstanding request is neither PlayTile nor
\* PlayStartingTile.
C22_OneConflictBlocksPlacement ==
    /\ Cardinality(ConflictCells(board)) <= 1
    /\ ConflictCells(board) # {} =>
           /\ \A t \in Cells :
                  place_tile(board, t[1], t[2]) =
                      [result |-> [kind |-> "CellNotPlayable",
                                   reason |-> "ConflictOnBoard"],
                       board |-> board]
           /\ current_request.kind \notin {"PlayTile", "PlayStartingTile"}

\* a Tile response has been handed to the engine while a NewChain conflict
\* waits for its chain
C22_Witness ==
    /\ ConflictCells(board) # {}
    /\ result = "ProtocolMismatch"
    /\ current_request.kind = "ChooseNewChain"

\* The neighbourhood of a cell as the specification words it: the cells of
\* the board next to it in its row or its column, the chains on them, and
\* whether one of them is Independent.
CellsNextTo(t) ==
    { u \in { <<t[1], t[2] + 1>>, <<t[1], t[2] - 1>>,
              <<t[1] + 1, t[2]>>, <<t[1] - 1, t[2]>> } :
        u[1] \in 0..(BOARD_ROWS - 1) /\ u[2] \in 0..(BOARD_COLS - 1) }

\* the cells of the board that the model can name
CellInputs == TileInputs \cap Cells

ChainsNextTo(b, t) ==
    { hotel \in Hotels : \E u \in CellsNextTo(t) : b[u] = HotelCell(hotel) }

IndependentNextTo(b, t) == \E u \in CellsNextTo(t) : b[u] = Independent

ChainSizes(b) == [hotel \in Hotels |-> get_hotel_chain_size(b, hotel)]

\* the classification of a placement on a playable cell
Classified(b, t) ==
    IF ChainsNextTo(b, t) = {} /\ IndependentNextTo(b, t)
    THEN [kind |-> "ConflictCreated", conflict_type |-> NewChain]
    ELSE IF Cardinality(ChainsNextTo(b, t)) >= 2
    THEN [kind |-> "ConflictCreated",
          conflict_type |-> Merge(Cardinality(ChainsNextTo(b, t)) - 1)]
    ELSE [kind |-> "Success"]

PlacedAsSpecified(b, t, placed) ==
    /\ placed.result = Classified(b, t)
    /\ (ChainsNextTo(b, t) = {} /\ ~IndependentNextTo(b, t)) =>
           placed.board[t] = Independent
    /\ placed.result.kind = "Success" => placed.board[t] # Empty
    /\ placed.result.kind = "ConflictCreated" =>
           /\ Cardinality(ConflictCells(placed.board)) = 1
           /\ ChainSizes(placed.board) = ChainSizes(b)

\* C23: on every board without a Conflict cell, place_tile on a playable
\* cell returns ConflictCreated(NewChain) when the cell has no chain but an
\* Independent cell next to it, ConflictCreated(Merge(k-1)) when it has
\* k >= 2 chains next to it, and Success otherwise, leaving the cell
\* Independent when it has neither a chain nor an Independent cell next to
\* it; after Success the cell is not Empty; after ConflictCreated exactly
\* one cell is in state Conflict and every chain has the size it had.
C23_PlaceTileClassifies ==
    \A t \in CellInputs :
        is_cell_playable(board, t[1], t[2]) = "Playable" =>
            PlacedAsSpecified(board, t, place_tile(board, t[1], t[2]))

\* place_tile has put a Merge conflict between Tower and American
C23_Witness == board[<<1, 3>>] = Conflict(Merge(1))

\* cells off the board: the row, the column, or both outside the grid
OffBoardInputs ==
    { <<BOARD_ROWS, 0>>, <<0, BOARD_COLS>>, <<BOARD_ROWS, BOARD_COLS>> }

SafeChainsNextTo(b, t) == ChainsNextTo(b, t) \cap SafeChains(b)

\* what is_cell_playable is to answer, the refusals in the order of the
\* specification
Playability(b, t) ==
    IF t[1] \notin 0..(BOARD_ROWS - 1) \/ t[2] \notin 0..(BOARD_COLS - 1)
    THEN "CellIsOffBoard"
    ELSE IF ConflictCells(b) # {}
    THEN "ConflictOnBoard"
    ELSE IF b[t] # Empty
    THEN "CellIsNotEmpty"
    ELSE IF /\ \A hotel \in Hotels : get_hotel_chain_size(b, hotel) > 0
            /\ ChainsNextTo(b, t) = {}
            /\ IndependentNextTo(b, t)
    THEN "HotelsAreAllActive"
    ELSE IF Cardinality(SafeChainsNextTo(b, t)) >= 2
    THEN "AdjacentHotelsAreSafe"
    ELSE "Playable"

\* C24: is_cell_playable refuses a cell with CellIsOffBoard when its row or
\* column is outside the 9x12 grid, with ConflictOnBoard when a Conflict
\* cell exists, with CellIsNotEmpty when the cell is not Empty, with
\* HotelsAreAllActive when all 7 chains are active and the cell would start
\* a chain, with AdjacentHotelsAreSafe when the cell is next to two or more
\* chains of 11 cells or more, and answers playable in every other case;
\* an Empty cell next to one safe chain and one or more unsafe chains is
\* playable when no Conflict cell exists.
C24_PlayabilityReasons ==
    /\ \A t \in CellInputs \cup OffBoardInputs :
           is_cell_playable(board, t[1], t[2]) = Playability(board, t)
    /\ \A t \in CellInputs :
           (/\ ConflictCells(board) = {}
            /\ board[t] = Empty
            /\ Cardinality(SafeChainsNextTo(board, t)) = 1
            /\ Cardinality(ChainsNextTo(board, t)) >= 2)
               => is_cell_playable(board, t[1], t[2]) = "Playable"

\* a tile has been placed on the board with two safe chains: (2,2), between
\* them, is refused and (1,3), between Tower and American, is playable
C24_Witness ==
    /\ board[<<1, 0>>] = Independent
    /\ is_cell_playable(board, 2, 2) = "AdjacentHotelsAreSafe"
    /\ is_cell_playable(board, 1, 3) = "Playable"
    /\ Cardinality(SafeChainsNextTo(board, <<1, 3>>)) = 1

\* the set acceptable_conflict_resolutions is to return
Acceptable(b) ==
    IF ConflictCells(b) = {}
    THEN {}
    ELSE LET cell == CHOOSE t \in ConflictCells(b) : TRUE
         IN  IF b[cell].conflict_type = NewChain
             THEN { hotel \in Hotels : get_hotel_chain_size(b, hotel) = 0 }
             ELSE { hotel \in ChainsNextTo(b, cell) :
                      \A other \in ChainsNextTo(b, cell) :
                          get_hotel_chain_size(b, other)
                              <= get_hotel_chain_size(b, hotel) }

\* C25: acceptable_conflict_resolutions returns exactly the inactive chains
\* for a NewChain conflict, exactly the chains next to the conflict cell
\* whose size is the largest among the chains next to it for a Merge
\* conflict, and the empty set when no Conflict cell is on the board.
C25_AcceptableResolutions ==
    acceptable_conflict_resolutions(board) = Acceptable(board)

\* place_tile has put a Merge conflict between Tower and Luxor, of two
\* cells each, and both are acceptable
C25_Witness ==
    /\ board[<<2, 2>>] = Conflict(Merge(1))
    /\ acceptable_conflict_resolutions(board) = {"Tower", "Luxor"}

\* C26: resolve_conflict(x) returns an error and leaves the board as it is
\* unless x is in acceptable_conflict_resolutions(); when it succeeds no
\* Conflict cell remains on the board and the former conflict cell belongs
\* to chain x.
C26_ResolveConflict ==
    \A x \in Hotels :
        IF x \in Acceptable(board)
        THEN /\ resolve_conflict(board, x).ok
             /\ ConflictCells(resolve_conflict(board, x).board) = {}
             /\ \A t \in ConflictCells(board) :
                    resolve_conflict(board, x).board[t] = HotelCell(x)
        ELSE /\ ~resolve_conflict(board, x).ok
             /\ resolve_conflict(board, x).board = board

\* resolve_conflict has made the NewChain conflict on (1,1) a cell of Luxor
C26_Witness ==
    /\ board[<<1, 1>>] = HotelCell("Luxor")
    /\ ConflictCells(board) = {}

\* the non-empty cells of b connected to the cells of S along rows and
\* columns, the cells of S included
RECURSIVE ConnectedTo(_, _)
ConnectedTo(b, S) ==
    LET more == { u \in UNION { CellsNextTo(t) : t \in S } :
                    b[u] # Empty /\ u \notin S }
    IN  IF more = {} THEN S ELSE ConnectedTo(b, S \cup more)

\* the call that led to g has founded the chain for the player
NewChainFounded(g, hotel, player) ==
    /\ ~g.panicked
    /\ g.result = "Ok"
    /\ \A t \in ConnectedTo(board, ConflictCells(board)) :
           g.board[t] = HotelCell(hotel)
    /\ get_hotel_chain_size(g.board, hotel) >= 2
    /\ ConflictCells(g.board) = {}
    /\ \/ g.current_request = Request("BuyStock", player)
       \/ TurnEnded(g, player)

\* C27: while the request is ChooseNewChain(p), a NewChain(h) response is
\* rejected with InvalidMove and no change of state when h is active; when
\* h is inactive it is accepted, the conflict cell and every non-empty cell
\* connected to it along rows and columns become cells of h, so that h has
\* 2 cells or more, no Conflict cell remains, and the request becomes
\* BuyStock(p) or the turn ends.
C27_NewChainResponse ==
    current_request.kind = "ChooseNewChain" =>
        \A hotel \in HotelInputs :
            IF get_hotel_chain_size(board, hotel) > 0
            THEN RejectedUnchanged(
                     Call([kind |-> "NewChain", hotel |-> hotel]))
            ELSE NewChainFounded(Call([kind |-> "NewChain", hotel |-> hotel]),
                                 hotel, current_request.player)

\* seat 0 has founded Luxor on (0,0) and the tile it played
C27_Witness ==
    /\ result = "Ok"
    /\ current_request = Request("BuyStock", 0)
    /\ board[<<0, 0>>] = HotelCell("Luxor")
    /\ get_hotel_chain_size(board, "Luxor") = 2

\* the call that led to g has given the founder one share of the bank's
\* stock of the chain before the call when there was one, and has changed
\* no other holding and no cash
FounderShareGiven(g, hotel, player, given) ==
    /\ g.players[player].stocks =
           [players[player].stocks EXCEPT ![hotel] = @ + given]
    /\ g.available_stock = [available_stock EXCEPT ![hotel] = @ - given]
    /\ g.players[player].cash = players[player].cash
    /\ \A other \in DOMAIN players \ {player} :
           /\ g.players[other].stocks = players[other].stocks
           /\ g.players[other].cash = players[other].cash

\* C28: when a NewChain(h) response is accepted, the founder receives
\* exactly one share of h if the bank holds at least one (the founder's
\* holding + 1, the bank's stock - 1, the founder's cash unchanged) and
\* nothing if the bank holds none; no other player's holdings or cash
\* change.
C28_FounderShare ==
    current_request.kind = "ChooseNewChain" =>
        \A hotel \in HotelInputs :
            Call([kind |-> "NewChain", hotel |-> hotel]).result = "Ok" =>
                FounderShareGiven(Call([kind |-> "NewChain", hotel |-> hotel]),
                                  hotel, current_request.player,
                                  IF available_stock[hotel] >= 1 THEN 1 ELSE 0)

\* seat 0 has founded American, of which the bank holds no share, and has
\* received none
C28_Witness ==
    /\ result = "Ok"
    /\ current_request = Request("BuyStock", 0)
    /\ board[<<0, 0>>] = HotelCell("American")
    /\ available_stock["American"] = 0
    /\ players[0].stocks["American"] = 0

\* the bracket of a chain size: 2, 3, 4, 5, 6-10, 11-20, 21-30, 31-40, 41+
Bracket(size) ==
    IF size <= 2 THEN 0
    ELSE IF size <= 5 THEN size - 2
    ELSE 4 + Cardinality({ edge \in {10, 20, 30, 40} : size > edge })

PriceOf(hotel, size) == (Bracket(size) + get_hotel_row_advantage(hotel) + 2) * 100

\* the sizes a chain has had on its way to the size it has
SizesUpTo(size) == 2..size

\* C29: for each of the 7 chains and every size from 2 to 108 the stock
\* price is (bracket + row offset + 2) x 100 for the brackets 2, 3, 4, 5,
\* 6-10, 11-20, 21-30, 31-40, 41+, the majority bonus is 10 x the price and
\* the minority bonus 5 x the price, and none of the three is lower than at
\* a smaller size.
C29_PricesByBracket ==
    \A hotel \in get_active_hotels(board) :
        \A size \in SizesUpTo(get_hotel_chain_size(board, hotel)) :
            /\ get_stock_value(hotel, size) = PriceOf(hotel, size)
            /\ get_majority_holder_bonus(hotel, size) = 10 * PriceOf(hotel, size)
            /\ get_minority_holder_bonus(hotel, size) = 5 * PriceOf(hotel, size)
            /\ \A smaller \in SizesUpTo(size) :
                   /\ get_stock_value(hotel, smaller)
                          <= get_stock_value(hotel, size)
                   /\ get_majority_holder_bonus(hotel, smaller)
                          <= get_majority_holder_bonus(hotel, size)
                   /\ get_minority_holder_bonus(hotel, smaller)
                          <= get_minority_holder_bonus(hotel, size)

\* Continental covers the whole board and is priced in the highest bracket
C29_Witness ==
    /\ get_hotel_chain_size(board, "Continental") = BOARD_ROWS * BOARD_COLS
    /\ get_stock_value("Continental", BOARD_ROWS * BOARD_COLS) = 1200

\* the engine g is a game of n players as AcquireGame::new is to leave it
FreshGame(g, n) ==
    /\ DOMAIN g.available_stock = Hotels
    /\ Cardinality(Hotels) = 7
    /\ \A hotel \in Hotels : g.available_stock[hotel] = 25
    /\ DOMAIN g.players = 0..(n - 1)
    /\ \A p \in DOMAIN g.players :
           /\ g.players[p].cash = 6000
           /\ \A hotel \in Hotels : g.players[p].stocks[hotel] = 0
           /\ g.players[p].tiles = {}
    /\ \A t \in (0..8) \X (0..11) : g.board[t] = Empty
    /\ g.available_tiles = (0..8) \X (0..11)
    /\ Cardinality(g.available_tiles) = 108
    /\ g.current_state.phase = "GameStart"
    /\ g.current_request = Request("PlayStartingTile", 0)

\* C30: in a freshly created game with n players the bank holds 25 shares
\* of each of the 7 chains, every player has $6000, no share of any chain
\* and an empty hand, the board is entirely Empty, the pool holds all 108
\* tiles, the phase is GameStart and the request is PlayStartingTile(0).
\* The game of the state is fresh as long as no starting tile is played.
C30_FreshGame ==
    /\ \A n \in 1..MaxNewPlayers : FreshGame(AcquireGame_new(n, seed), n)
    /\ current_state = GameStartState_new(NumPlayers) =>
           FreshGame(Self, NumPlayers)

\* the game has been created with the highest seed and has sent its welcome
C30_Witness ==
    /\ seed = MaxStartSeed
    /\ sent = 1
    /\ result = "Ok"
    /\ current_state = GameStartState_new(NumPlayers)

\* the call that led to g has sold the player one share of the chain at
\* the price of its size on the board before the call, and has changed
\* nothing else but, when it ended the turn, the player's hand by one tile
\* of the pool
BoughtOneShare(g, hotel, player) ==
    /\ g.players[player].cash =
           players[player].cash
               - get_stock_value(hotel, get_hotel_chain_size(board, hotel))
    /\ g.players[player].stocks =
           [players[player].stocks EXCEPT ![hotel] = @ + 1]
    /\ g.available_stock = [available_stock EXCEPT ![hotel] = @ - 1]
    /\ g.board = board
    /\ \A other \in DOMAIN players \ {player} : g.players[other] = players[other]
    /\ \/ /\ g.players[player].tiles = players[player].tiles
          /\ g.available_tiles = available_tiles
          /\ g.current_request = current_request
       \/ TurnEnded(g, player)

\* C31: an accepted Buy(chain) in BuyStock(p) lowers p's cash by the price
\* of the chain at its size on the board, raises p's holding of the chain
\* by 1 and lowers the bank's stock of the chain by 1; the board, every
\* other player, the bank's stock of every other chain and p's hand are
\* unchanged, apart from the tile p draws when the purchase ends the turn.
C31_BuyMovesOneShare ==
    current_request.kind = "BuyStock" =>
        \A hotel \in HotelInputs :
            Call([kind |-> "BuyStock", choice |-> Buy(hotel)]).result = "Ok" =>
                BoughtOneShare(
                    Call([kind |-> "BuyStock", choice |-> Buy(hotel)]),
                    hotel, current_request.player)

\* seat 0 has lengthened American to three cells and bought a share of it
\* at the price of three cells
C31_Witness ==
    /\ result = "Ok"
    /\ current_request = Request("BuyStock", 0)
    /\ get_hotel_chain_size(board, MarketChain) = 3
    /\ players[0].stocks[MarketChain] = 2
    /\ players[0].cash = STARTING_CASH - get_stock_value(MarketChain, 3)

\* the Independent cells of b connected to the cells of S along rows and
\* columns through Independent cells, with the cells of S
RECURSIVE IndependentRegion(_, _)
IndependentRegion(b, S) ==
    LET more == { u \in UNION { CellsNextTo(t) : t \in S } :
                    b[u] = Independent /\ u \notin S }
    IN  IF more = {} THEN S ELSE IndependentRegion(b, S \cup more)

\* placed is what place_tile made of b when t joined the chain
JoinedChain(b, t, hotel, placed) ==
    /\ placed.result = [kind |-> "Success"]
    /\ \A u \in IndependentRegion(b, {t}) : placed.board[u] = HotelCell(hotel)
    /\ get_hotel_chain_size(placed.board, hotel) =
           get_hotel_chain_size(b, hotel)
               + Cardinality(IndependentRegion(b, {t}))
    /\ \A u \in Cells \ IndependentRegion(b, {t}) : placed.board[u] = b[u]

\* C32: when place_tile succeeds on a cell next to exactly one chain, the
\* cell and every Independent cell connected to it, directly or through
\* other Independent cells, belong to that chain afterwards, the chain has
\* grown by 1 plus the number of Independent cells absorbed, and no cell
\* outside that region has changed.
C32_PlacementJoinsChain ==
    \A t \in CellInputs :
        (/\ is_cell_playable(board, t[1], t[2]) = "Playable"
         /\ Cardinality(ChainsNextTo(board, t)) = 1)
            => JoinedChain(board, t, CHOOSE hotel \in ChainsNextTo(board, t) : TRUE,
                           place_tile(board, t[1], t[2]))

\* a tile lies Independent on (0,4); (0,3), between it and American, is
\* playable, and place_tile makes both cells of American
C32_Witness ==
    /\ board[<<0, 4>>] = Independent
    /\ ChainsNextTo(board, <<0, 3>>) = {"American"}
    /\ place_tile(board, 0, 3).board[<<0, 4>>] = HotelCell("American")
    /\ get_hotel_chain_size(place_tile(board, 0, 3).board, "American") =
           get_hotel_chain_size(board, "American") + 2

\* the shares of a chain held by the seats 0..(n - 1)
RECURSIVE SharesHeld(_, _)
SharesHeld(hotel, n) ==
    IF n = 0 THEN 0
    ELSE players[n - 1].stocks[hotel] + SharesHeld(hotel, n - 1)

\* C33: stock conservation: in every reachable state and for each of the 7
\* chains, the bank's stock of the chain plus all the players' holdings of it
\* is 25, so the bank's stock stays within 0..25 through founding bonuses,
\* purchases, sells and trades.
C33_StockConservation ==
    \A hotel \in Hotels :
        /\ available_stock[hotel] + SharesHeld(hotel, Cardinality(DOMAIN players))
               = MAX_STOCK_PER_HOTEL
        /\ available_stock[hotel] \in 0..MAX_STOCK_PER_HOTEL
        /\ \A p \in DOMAIN players : players[p].stocks[hotel] \in 0..MAX_STOCK_PER_HOTEL

\* the merge maker has traded the two shares of Luxor for one of the
\* surviving chain: Luxor's shares are all back in the bank
C33_Witness ==
    /\ InSafe
    /\ players[0].stocks["Luxor"] = 0
    /\ available_stock["Luxor"] = MAX_STOCK_PER_HOTEL
    /\ players[0].stocks[SafeChain] = 1
    /\ available_stock[SafeChain] = MAX_STOCK_PER_HOTEL - 2

\* the number of places a tile is in: the pool, each hand, the board
PlacesOf(t) ==
    (IF t \in available_tiles THEN 1 ELSE 0)
    + Cardinality({ p \in DOMAIN players : t \in players[p].tiles })
    + (IF board[t] # Empty THEN 1 ELSE 0)

TilesConserved ==
    /\ available_tiles \subseteq Cells
    /\ \A p \in DOMAIN players : players[p].tiles \subseteq Cells
    /\ \A t \in Cells : PlacesOf(t) = 1

\* C34: tile conservation: after every call each of the 108 tiles is in
\* exactly one of the pool, one player's hand and the board as a cell that
\* is not Empty (so a tile of a hand names an Empty cell that is not in the
\* pool); the pool never gains a tile and a cell that is not Empty never
\* becomes Empty again.
C34_TileConservation ==
    /\ TilesConserved
    /\ [][/\ TilesConserved'
          /\ available_tiles' \subseteq available_tiles
          /\ \A t \in Cells : board[t] # Empty => board'[t] # Empty]_vars

\* a turn has ended: besides the starting tiles a tile of a hand lies on
\* the board and its player has drawn another from the pool
C34_Witness ==
    /\ seed <= MaxSeed
    /\ turns = 1
    /\ current_state.phase = "PlayTile"
    /\ Cardinality(available_tiles) =
           BOARD_ROWS * BOARD_COLS - NumPlayers - NumPlayers * HAND_SIZE - 1
    /\ Cardinality({ t \in Cells : board[t] # Empty }) = NumPlayers + 1

\* C35: whenever the outstanding request is DisposeStock at least one player
\* has a remaining count above 0 in the disposal state, so the engine never
\* rests in a DisposeStock phase that no response can end.
C35_DisposalHasSharesLeft ==
    current_request.kind = "DisposeStock" =>
        \E p \in DOMAIN players :
            current_state.remaining_shares_per_player[p] > 0

\* a response of the shape the request expects that names what its handler
\* looks up: a tile of the hand of the player addressed, a seated player
Answerable(response) ==
    /\ response.kind = ExpectedShape(current_request.kind)
    /\ response.kind = "Tile" =>
           response.tile \in players[current_request.player].tiles
    /\ response.kind = "DisposeStock" => response.player \in DOMAIN players

\* C36: the engine never draws from an empty pool: whenever a call deals the
\* hands, draws a starting tile or ends a turn the pool holds a tile for each
\* draw, so that no call the engine can answer aborts in take_random_tile.
C36_NeverDrawsFromEmptyPool ==
    \A response \in Responses :
        Answerable(response) => ~Call(response).panicked

\* the player whose tile created the Merge conflict on the board
MergeMaker ==
    IF current_state.phase \in {"Merger", "DisposeStock"}
    THEN current_state.merge_maker
    ELSE current_request.player

\* the chains next to the Conflict cell that are still to be merged into
\* survivor
DefunctChainsLeft(b, survivor) ==
    IF HasMergeConflict(b)
    THEN get_adjacent_hotels(b, get_conflict_on_board(b).row,
                             get_conflict_on_board(b).col) \ {survivor}
    ELSE {}

MergerComplete(merge_maker) ==
    /\ ConflictCells(board) = {}
    /\ \/ current_request = Request("BuyStock", merge_maker)
       \/ current_request = Request("PlayTile", (merge_maker + 1) % NumPlayers)

\* a disposal finishes with this step
DisposalFinishes ==
    /\ current_state.phase = "DisposeStock"
    /\ result' = "Ok"
    /\ \/ current_state'.phase # "DisposeStock"
       \/ current_state'.defunct_chain # current_state.defunct_chain

\* C37: merger termination: once a tile placement has created a Merge
\* conflict, with answers that name acceptable chains and as long as every
\* answer is accepted, the merger completes: the Conflict cell disappears
\* and the request becomes BuyStock of the merge maker or PlayTile of the
\* next seat; and each finished disposal leaves fewer defunct chains next to
\* the Conflict cell.
C37_MergerTerminates ==
    /\ \A merge_maker \in Players :
           (HasMergeConflict(board) /\ MergeMaker = merge_maker)
               ~> (MergerComplete(merge_maker) \/ result # "Ok")
    /\ [][DisposalFinishes =>
              Cardinality(DefunctChainsLeft(board', current_state.surviving_chain))
                  < Cardinality(DefunctChainsLeft(board, current_state.surviving_chain))]_vars

\* the merger of Luxor and American into Tower is complete and its maker is
\* asked to buy
C37_Witness ==
    /\ InMerger
    /\ result = "Ok"
    /\ current_request = Request("BuyStock", 0)
    /\ ConflictCells(board) = {}
    /\ board[<<2, 4>>] = HotelCell(SafeChain)
    /\ get_hotel_chain_size(board, "Luxor") = 0
    /\ get_hotel_chain_size(board, "American") = 0

\* C38: turn progress: whenever the outstanding request is PlayTile(p), at
\* least one tile of p's hand is playable on the board, so that some Tile
\* response is accepted.
C38_SomeTileIsPlayable ==
    current_request.kind = "PlayTile" =>
        \E t \in players[current_request.player].tiles :
            is_cell_playable(board, t[1], t[2]) = "Playable"

ChainCells(b, hotel) == { t \in Cells : b[t] = HotelCell(hotel) }

WellFormed(b) ==
    /\ \A t \in Cells :
           b[t] = Independent => \A u \in CellsNextTo(t) : b[u].tag # "Hotel"
    /\ \A t \in Cells :
           b[t].tag = "Hotel" =>
               \A u \in CellsNextTo(t) : b[u].tag = "Hotel" => b[u] = b[t]
    /\ \A hotel \in get_active_hotels(b) :
           /\ get_hotel_chain_size(b, hotel) >= 2
           /\ ConnectedTo(b, { CHOOSE t \in ChainCells(b, hotel) : TRUE })
                  = ChainCells(b, hotel)

\* C39: board well-formedness: in every reachable state without a Conflict
\* cell no Independent cell lies next to a chain cell, no two cells of
\* different chains lie next to each other, every active chain has 2 cells
\* or more, and the cells of each active chain form one connected region.
C39_BoardWellFormed ==
    ConflictCells(board) = {} => WellFormed(board)

\* the hands hold HAND_SIZE tiles each, but for the hand of the seats of
\* short, which holds one tile less
HandsHold(hands, short) ==
    \A p \in DOMAIN hands :
        Cardinality(hands[p].tiles) = IF p \in short THEN HAND_SIZE - 1 ELSE HAND_SIZE

\* C40: hand size: after the deal, whenever the request is PlayTile(p) every
\* player holds exactly 6 tiles; from p's accepted tile placement to the end
\* of p's turn p holds 5 tiles and every other player 6; and a rejected Tile
\* response changes no hand.
C40_HandSize ==
    /\ current_request.kind = "PlayTile" => HandsHold(players, {})
    /\ current_request.kind \in {"ChooseNewChain", "ChooseMergerSurvivor",
                                 "ChooseDefunctChainToResolve", "DisposeStock",
                                 "BuyStock"}
           => HandsHold(players, {MergeMaker})
    /\ current_request.kind = "PlayTile" =>
           \A tile \in TileInputs \cup players[current_request.player].tiles :
               Call([kind |-> "Tile", tile |-> tile]).result \in Errors =>
                   \A p \in DOMAIN players :
                       Call([kind |-> "Tile", tile |-> tile]).players[p].tiles
                           = players[p].tiles

\* late in a game a turn has ended with a draw and the next player, asked
\* to play with 6 tiles in each hand, names a tile of the hand that lies
\* between two safe chains and is refused
C40_Witness ==
    /\ InLast
    /\ result = "Ok"
    /\ current_request = Request("PlayTile", 1)
    /\ HandsHold(players, {})
    /\ <<0, 6>> \in players[1].tiles
    /\ Call([kind |-> "Tile", tile |-> <<0, 6>>]).result = "InvalidMove"
=============================================================================
